---- MODULE Spec2Model ----
(***************************************************************************)
(* TutorAI: the retrieval-and-generation pipeline of the lecture backend.  *)
(*                                                                         *)
(* Text is modelled at character level: a Python str is a sequence of      *)
(* one-character strings.  Optional[T] is a sequence of length at most 1   *)
(* (None is <<>>, a value v is <<v>>).  A float number of seconds is kept  *)
(* as an integer number of centiseconds; a similarity score is kept as an  *)
(* integer (score * 10).                                                   *)
(***************************************************************************)
EXTENDS Integers, Sequences, FiniteSets, TLC

(***************************************************************************)
(* Optional values                                                         *)
(***************************************************************************)
None == <<>>

Some(v) == <<v>>

IsNone(o) == o = <<>>

\* Python truthiness of an Optional[str]: `if not x` holds for None and "".
Falsy(o) == o = <<>> \/ o[1] = <<>>

(***************************************************************************)
(* Python str operations                                                   *)
(***************************************************************************)
Min(a, b) == IF a <= b THEN a ELSE b

Max(a, b) == IF a >= b THEN a ELSE b

Whitespace == {" ", "\n", "\t", "\r"}

\* s[a:b] for 0 <= a, Python slice semantics (clipped at len(s)).
Slice(s, a, b) == SubSeq(s, a + 1, Min(b, Len(s)))

\* str.strip(): the text between the first and the last non-whitespace char
Strip(s) ==
    IF \A i \in 1..Len(s) : s[i] \in Whitespace THEN <<>>
    ELSE LET lo == CHOOSE i \in 1..Len(s) :
                       /\ s[i] \notin Whitespace
                       /\ \A j \in 1..(i - 1) : s[j] \in Whitespace
             hi == CHOOSE i \in 1..Len(s) :
                       /\ s[i] \notin Whitespace
                       /\ \A j \in (i + 1)..Len(s) : s[j] \in Whitespace
         IN  SubSeq(s, lo, hi)

\* `a in b` for two str values
Contains(b, a) ==
    \/ Len(a) = 0
    \/ \E i \in 0..(Len(b) - Len(a)) : \A j \in 1..Len(a) : b[i + j] = a[j]

RECURSIVE SortedSeq(_)
\* the elements of a finite set of integers in increasing order
SortedSeq(S) ==
    IF S = {} THEN <<>>
    ELSE LET m == CHOOSE x \in S : \A y \in S : x <= y
         IN  <<m>> \o SortedSeq(S \ {m})

\* str.split('\n')
SplitLines(s) ==
    LET nl     == {i \in 1..Len(s) : s[i] = "\n"}
        starts == SortedSeq({0} \cup nl)
        stop(k) == IF k < Len(starts) THEN starts[k + 1] - 1 ELSE Len(s)
    IN  [k \in 1..Len(starts) |-> SubSeq(s, starts[k] + 1, stop(k))]

RECURSIVE Join(_, _)
\* sep.join(parts)
Join(sep, parts) ==
    IF Len(parts) = 0 THEN <<>>
    ELSE IF Len(parts) = 1 THEN parts[1]
    ELSE parts[1] \o sep \o Join(sep, Tail(parts))

DigitChars == <<"0", "1", "2", "3", "4", "5", "6", "7", "8", "9">>

IsDigit(c) == \E d \in 1..10 : DigitChars[d] = c

DigitVal(c) == (CHOOSE d \in 1..10 : DigitChars[d] = c) - 1

RECURSIVE IntToStr(_)
\* str(n) / f"{n}" for a non-negative int
IntToStr(n) ==
    IF n < 10 THEN <<DigitChars[n + 1]>>
    ELSE IntToStr(n \div 10) \o <<DigitChars[(n % 10) + 1]>>

\* f"{n:02d}"
Pad2(n) == IF n < 10 THEN <<"0">> \o IntToStr(n) ELSE IntToStr(n)

\* f"{x:.2f}" for a non-negative float x given in centiseconds
FormatFixed2(cs) == IntToStr(cs \div 100) \o <<".">> \o Pad2(cs % 100)

(***************************************************************************)
(* services/timestamp_service.py                                           *)
(***************************************************************************)
\* int(a) * 10 + int(b) for the two digit characters at s[i], s[i+1]
TwoDigits(s, i) == DigitVal(s[i]) * 10 + DigitVal(s[i + 1])

\* the regex fragment \d{2}:\d{2}:\d{2}\.\d{2} matched at position i of s
MatchTimeAt(s, i) ==
    /\ Len(s) >= i + 10
    /\ \A k \in {0, 1, 3, 4, 6, 7, 9, 10} : IsDigit(s[i + k])
    /\ s[i + 2] = ":"
    /\ s[i + 5] = ":"
    /\ s[i + 8] = "."

\* time_to_seconds, result in centiseconds
time_to_seconds(t) ==
    (TwoDigits(t, 1) * 3600 + TwoDigits(t, 4) * 60 + TwoDigits(t, 7)) * 100
        + TwoDigits(t, 10)

RECURSIVE Pow2Mod100(_)
\* 2^k modulo 100
Pow2Mod100(k) == IF k = 0 THEN 1 ELSE (2 * Pow2Mod100(k - 1)) % 100

RECURSIVE FloorLog2(_)
\* the binary exponent of a positive integer
FloorLog2(n) == IF n < 2 THEN 0 ELSE 1 + FloorLog2(n \div 2)

\* the centisecond values c for which int((x % 60 - int(x % 60)) * 100) is
\* c - 1 and not c, where x is the float w + c / 100 and 0 <= w < 16 (IEEE-754
\* binary64, as float arithmetic of CPython computes it): the fraction c/100
\* is rounded down when added to w, and the product does not round back to c
TruncatedBelow16(w) ==
    IF w = 0 THEN {29, 57, 58}
    ELSE IF w = 1
    THEN {13, 15, 16, 17, 18, 19, 20, 21, 22, 36, 38, 40, 41, 42, 43, 44,
          45, 57, 59, 61, 63, 65, 82, 84, 86, 88, 90}
    ELSE IF w < 4
    THEN {1, 3, 5, 7, 9, 11, 13, 15, 17, 19, 21, 26, 30, 32, 34, 36, 38, 40,
          42, 44, 47, 51, 55, 57, 59, 61, 63, 65, 72, 76, 80, 82, 84, 86,
          88, 90, 97}
    ELSE IF w < 8
    THEN {1, 2, 5, 6, 9, 10, 13, 14, 17, 18, 21, 22, 26, 27, 30, 31, 34, 35,
          38, 39, 42, 43, 47, 51, 52, 55, 59, 60, 63, 64, 68, 69, 72, 76,
          77, 80, 84, 85, 88, 89, 93, 94, 97}
    ELSE {1, 2, 3, 4, 9, 10, 11, 12, 17, 18, 19, 20, 26, 27, 28, 29, 34, 35,
          36, 37, 42, 43, 44, 45, 51, 52, 53, 54, 59, 60, 61, 62, 68, 69,
          70, 76, 77, 78, 79, 84, 85, 86, 87, 93, 94, 95}

\* is the fraction of the float w + c / 100 truncated to c - 1 centiseconds:
\* for w >= 16 exactly when c / 100 is rounded down onto the floats of the
\* binade of w, whose spacing is 2^(e - 52) for e = FloorLog2(w)
TruncatesCentis(w, c) ==
    IF w < 16 THEN c \in TruncatedBelow16(w)
    ELSE LET r == (c * Pow2Mod100(52 - FloorLog2(w))) % 100
         IN  0 < r /\ r < 50

\* seconds_to_time, argument the float time_to_seconds returns for a time of
\* cs centiseconds
seconds_to_time(cs) ==
    LET w             == cs \div 100
        hours         == w \div 3600
        minutes       == (w % 3600) \div 60
        whole_seconds == w % 60
        milliseconds  == IF TruncatesCentis(w, cs % 100) THEN (cs % 100) - 1
                         ELSE cs % 100
    IN  Pad2(hours) \o <<":">> \o Pad2(minutes) \o <<":">> \o Pad2(whole_seconds)
            \o <<".">> \o Pad2(milliseconds)

\* re.match(r'\[(T) - (T)\] (.+)', line): the pattern is anchored at the start
\* of the line only, and `.+` takes the rest of the line (at least one char).
LineMatches(line) ==
    /\ Len(line) >= 29
    /\ line[1] = "["
    /\ MatchTimeAt(line, 2)
    /\ line[13] = " " /\ line[14] = "-" /\ line[15] = " "
    /\ MatchTimeAt(line, 16)
    /\ line[27] = "]"
    /\ line[28] = " "

\* the TimestampSegment built from a matching line
SegmentOf(line) ==
    [start_time |-> time_to_seconds(SubSeq(line, 2, 12)),
     end_time   |-> time_to_seconds(SubSeq(line, 16, 26)),
     text       |-> SubSeq(line, 29, Len(line)),
     start_str  |-> SubSeq(line, 2, 12),
     end_str    |-> SubSeq(line, 16, 26)]

RECURSIVE MergeLines(_, _)
MergeLines(lines, acc) ==
    IF lines = <<>> THEN acc
    ELSE IF LineMatches(Head(lines))
    THEN MergeLines(Tail(lines), Append(acc, SegmentOf(Head(lines))))
    ELSE IF acc = <<>> THEN MergeLines(Tail(lines), acc)
    ELSE MergeLines(Tail(lines),
                    [acc EXCEPT ![Len(acc)].text = @ \o <<" ">> \o Head(lines)])

\* a variant of the parser that merges a line that does not match into the
\* text of the segment before it
ParseMergingLines(transcript) == MergeLines(SplitLines(Strip(transcript)), <<>>)

\* parse_transcript_with_timestamps
parse_transcript_with_timestamps(transcript) ==
    LET lines == SplitLines(Strip(transcript))
        hit   == SortedSeq({k \in 1..Len(lines) : LineMatches(lines[k])})
    IN  [n \in 1..Len(hit) |-> SegmentOf(lines[hit[n]])]

\* format_timestamp_for_video, argument in centiseconds
format_timestamp_for_video(cs) ==
    LET whole   == cs \div 100
        hours   == whole \div 3600
        minutes == (whole % 3600) \div 60
        secs    == whole % 60
    IN  IF hours > 0
        THEN IntToStr(hours) \o <<"h">> \o IntToStr(minutes) \o <<"m">>
                 \o IntToStr(secs) \o <<"s">>
        ELSE IF minutes > 0
        THEN IntToStr(minutes) \o <<"m">> \o IntToStr(secs) \o <<"s">>
        ELSE IntToStr(secs) \o <<"s">>

(***************************************************************************)
(* services/transcription.py                                               *)
(***************************************************************************)
\* one line of the transcript: f"[{seg.start:.2f} - {seg.end:.2f}] {seg.text}"
TranscriptLine(seg) ==
    <<"[">> \o FormatFixed2(seg.start) \o <<" ", "-", " ">>
        \o FormatFixed2(seg.end) \o <<"]", " ">> \o seg.text

\* "\n".join(transcript) over the segments the speech-to-text engine yields
SerializeSegments(segs) ==
    Join(<<"\n">>, [k \in 1..Len(segs) |-> TranscriptLine(segs[k])])

(***************************************************************************)
(* State                                                                   *)
(***************************************************************************)
VARIABLES
    \* persistent stores
    transcriptFile,  \* data/lectures/{id}_transcript.txt per lecture: Optional[str]
    durationFile,    \* data/lectures/{id}_duration.txt per lecture: Optional[centiseconds]
    mediaFile,       \* data/lectures/{id}_{filename} per lecture: does it exist
    collections,     \* Qdrant collection lecture_{id} per lecture: Optional[points]
    dbLectures,      \* rows of the lectures table, per lecture id: Optional[row]
    pdfFiles,        \* the files of data/pdfs: their names
    \* the request being served
    pc,              \* position of the request / pipeline being executed
    owned,           \* verify_lecture_ownership(db, lecture_id, current_user.id)
    question,        \* payload.question / payload.query
    response,        \* what the endpoint returned: Optional[body]
    \* single-lecture QA
    state,           \* LectureProcessingState of the running QA workflow
    wfResult,        \* what run_lecture_qa returned: Optional[{answer, sources, error}]
    vsCalls,         \* vector-store client calls made (get_collection, query_points)
    llmLog,          \* outcome of every llm.invoke call made, in order
    aqCalls,         \* invocations of ask_question
    \* transcription
    whisper,         \* segments yielded by model.transcribe: (start, end, text)
    \* multi-lecture search
    lecture_ids,     \* payload.lecture_ids
    mstate,          \* MultiLectureState of the running search workflow
    all_results,     \* the local list of search_all_lectures_node
    searchLog,       \* per lecture searched: the documents found and the results built
    \* upload
    upload,          \* locals of upload_lecture
    \* summarization
    sstate,          \* SummarizationState of the running summarization workflow
    stages,          \* the stages that have run, in order, with what each sent
    gcs              \* locals of generate_chunked_summary

storeVars == <<transcriptFile, durationFile, mediaFile, collections, dbLectures, pdfFiles>>

requestVars == <<owned, question>>

qaVars == <<state, wfResult, vsCalls, llmLog, aqCalls>>

multiVars == <<lecture_ids, mstate, all_results, searchLog>>

sumVars == <<sstate, stages, gcs>>

vars == <<storeVars, pc, requestVars, response, qaVars, whisper, multiVars, upload,
          sumVars>>

\* generation-backend calls made
llmCalls == Len(llmLog)

Lectures == {"L1", "L2", "L3"}

\* a str literal (or f-string message) kept as one opaque token
Lit(x) == <<x>>

(***************************************************************************)
(* Retrieval helpers shared by the QA workflow and rag.ask_question        *)
(***************************************************************************)
WINDOW_SIZE == 1000

WINDOW_STRIDE == 2000

WINDOW_CAP == 5

TOP_K == 4

\* s[:n] for a list
Take(s, n) == SubSeq(s, 1, Min(n, Len(s)))

\* a variant in which the windows are not capped
TranscriptWindowsNoCap(t) ==
    [k \in 1..((Len(t) + WINDOW_STRIDE - 1) \div WINDOW_STRIDE) |->
        Slice(t, (k - 1) * WINDOW_STRIDE, (k - 1) * WINDOW_STRIDE + WINDOW_SIZE)]

\* [transcript[i:i+1000] for i in range(0, len(transcript), 2000)][:5]
TranscriptWindows(t) ==
    LET n   == (Len(t) + WINDOW_STRIDE - 1) \div WINDOW_STRIDE
        all == [k \in 1..n |->
                   Slice(t, (k - 1) * WINDOW_STRIDE,
                         (k - 1) * WINDOW_STRIDE + WINDOW_SIZE)]
    IN  Take(all, WINDOW_CAP)

\* chunk.strip() in segment.text or segment.text.strip() in chunk
SegmentMatches(chunk, seg) ==
    \/ Contains(seg.text, Strip(chunk))
    \/ Contains(chunk, Strip(seg.text))

\* a variant of the scan that keeps the last matching segment
LastMatch(chunk, segs) ==
    LET m == {k \in 1..Len(segs) : SegmentMatches(chunk, segs[k])}
    IN  IF m = {} THEN 0 ELSE CHOOSE k \in m : \A j \in m : k >= j

\* index of the first segment the inner `for segment in segments` loop
\* breaks on, 0 when the loop runs to its end
FirstMatch(chunk, segs) ==
    LET m == {k \in 1..Len(segs) : SegmentMatches(chunk, segs[k])}
    IN  IF m = {} THEN 0 ELSE CHOOSE k \in m : \A j \in m : k <= j

\* the citation dict built from a matched segment
SourceOf(seg) ==
    [text            |-> seg.text,
     start_time      |-> seg.start_time,
     end_time        |-> seg.end_time,
     start_str       |-> seg.start_str,
     end_str         |-> seg.end_str,
     video_timestamp |-> format_timestamp_for_video(seg.start_time)]

RECURSIVE MatchedSources(_, _)
\* the `for chunk in ...: for segment in segments: if ...: append; break`
\* loops of extract_sources_node and ask_question: a chunk no segment
\* matches appends nothing
MatchedSources(chunks, segs) ==
    IF Len(chunks) = 0 THEN <<>>
    ELSE LET k == FirstMatch(chunks[1], segs)
         IN  (IF k = 0 THEN <<>> ELSE <<SourceOf(segs[k])>>)
                 \o MatchedSources(Tail(chunks), segs)

(***************************************************************************)
(* db/qdrant_store.py                                                      *)
(***************************************************************************)
\* QdrantVectorStore.get_collection_info: None when the collection is
\* missing or the client call raises
get_collection_info(lecture, clientRaises) ==
    IF clientRaises THEN None ELSE collections[lecture]

\* QdrantVectorStore.similarity_search on an existing collection: the `limit`
\* best hits as Documents (page_content, metadata.score)
similarity_search(lecture, k) == Take(collections[lecture][1], k)

(***************************************************************************)
(* services/langgraph_workflows.py: the single-lecture QA workflow.        *)
(* Each node is a function of the state and of the outcomes of the         *)
(* external calls it makes; it yields the new state, the number of         *)
(* vector-store calls and the outcomes of the generation calls it made.    *)
(***************************************************************************)
\* LectureProcessingState(lecture_id=..., question=...)
InitialState(lecture, q) ==
    [lecture_id     |-> lecture,
     transcript     |-> None,
     question       |-> q,
     context_chunks |-> <<>>,
     answer         |-> None,
     sources        |-> <<>>,
     error          |-> None]

NodeResult(s, vs, llm) == [st |-> s, vs |-> vs, llm |-> llm]

\* a variant of load_transcript_node that reports no error for a missing
\* transcript
LoadTranscriptSilent(s, loadRaises) ==
    IF loadRaises
    THEN NodeResult([s EXCEPT !.error = Some(Lit("Error loading transcript"))], 0, <<>>)
    ELSE NodeResult([s EXCEPT !.transcript = transcriptFile[s.lecture_id]], 0, <<>>)

\* load_transcript_node; loadRaises: load_transcript raises (I/O, decoding)
load_transcript_node(s, loadRaises) ==
    IF loadRaises
    THEN NodeResult([s EXCEPT !.error = Some(Lit("Error loading transcript"))], 0, <<>>)
    ELSE IF Falsy(transcriptFile[s.lecture_id])
    THEN NodeResult([s EXCEPT !.error = Some(Lit("Transcript not found for lecture"))], 0, <<>>)
    ELSE NodeResult([s EXCEPT !.transcript = transcriptFile[s.lecture_id]], 0, <<>>)

\* retrieve_relevant_chunks; infoRaises: client.get_collection raises;
\* searchRaises: embed_query or client.query_points raises
retrieve_relevant_chunks(s, infoRaises, searchRaises) ==
    IF s.question = <<>>
    THEN NodeResult([s EXCEPT !.error = Some(Lit("No question provided"))], 0, <<>>)
    ELSE IF get_collection_info(s.lecture_id, infoRaises) = None
    THEN IF ~Falsy(s.transcript)
         THEN NodeResult([s EXCEPT !.context_chunks =
                                       TranscriptWindows(s.transcript[1])], 1, <<>>)
         ELSE NodeResult(s, 1, <<>>)
    ELSE IF searchRaises
    THEN NodeResult([s EXCEPT !.error = Some(Lit("Error retrieving chunks"))], 2, <<>>)
    ELSE LET docs == similarity_search(s.lecture_id, TOP_K)
         IN  NodeResult([s EXCEPT !.context_chunks =
                                      [k \in 1..Len(docs) |-> docs[k].page_content]],
                        2, <<>>)

\* a variant of generate_answer_node in which an answer clears the error
GenerateAnswerClearsError(s, ctorRaises, inv) ==
    IF ctorRaises \/ inv = None
    THEN NodeResult([s EXCEPT !.error = Some(Lit("Error generating answer"))], 0,
                    IF ctorRaises THEN <<>> ELSE <<inv>>)
    ELSE NodeResult([s EXCEPT !.answer = Some(Strip(inv[1])), !.error = None], 0, <<inv>>)

\* generate_answer_node; ctorRaises: get_llm() raises; inv: None when
\* llm.invoke raises, else the text it returns
generate_answer_node(s, ctorRaises, inv) ==
    IF s.question = <<>>
    THEN NodeResult([s EXCEPT !.error = Some(Lit("No question provided"))], 0, <<>>)
    ELSE IF ctorRaises
    THEN NodeResult([s EXCEPT !.error = Some(Lit("Error generating answer"))], 0, <<>>)
    ELSE IF inv = None
    THEN NodeResult([s EXCEPT !.error = Some(Lit("Error generating answer"))], 0, <<inv>>)
    ELSE NodeResult([s EXCEPT !.answer = Some(Strip(inv[1]))], 0, <<inv>>)

\* extract_sources_node
extract_sources_node(s) ==
    IF Falsy(s.transcript)
    THEN NodeResult(s, 0, <<>>)
    ELSE NodeResult([s EXCEPT !.sources =
                         MatchedSources(s.context_chunks,
                                        parse_transcript_with_timestamps(s.transcript[1]))],
                    0, <<>>)

(***************************************************************************)
(* services/rag.py                                                         *)
(***************************************************************************)
\* vector_store.similarity_search(question, k=5) on the QdrantVectorStore that
\* load_index returns: `question` binds to collection_name and the required
\* positional `query` is missing, so the call raises TypeError before any
\* backend is reached.
RagSearchRaises == TRUE

\* ask_question; the result says whether it raised, and otherwise carries the
\* (answer, sources) tuple; llm holds the outcomes of its llm.invoke calls
ask_question(lecture, loadRaises, ctorRaises, inv) ==
    IF loadRaises
    THEN [raised |-> TRUE, answer |-> <<>>, sources |-> <<>>, llm |-> <<>>]
    ELSE IF Falsy(transcriptFile[lecture])
    THEN [raised |-> FALSE, answer |-> Lit("Transcript not found for this lecture."),
          sources |-> <<>>, llm |-> <<>>]
    ELSE LET transcript == transcriptFile[lecture][1]
             relevant_chunks ==
                 IF RagSearchRaises
                 THEN TranscriptWindows(transcript)
                 ELSE LET docs == similarity_search(lecture, 5)
                      IN  [k \in 1..Len(docs) |-> docs[k].page_content]
         IN  IF ctorRaises
             THEN [raised |-> TRUE, answer |-> <<>>, sources |-> <<>>, llm |-> <<>>]
             ELSE [raised  |-> FALSE,
                   answer  |-> IF inv = None THEN Lit("Error generating answer")
                               ELSE Strip(inv[1]),
                   sources |-> MatchedSources(relevant_chunks,
                                   parse_transcript_with_timestamps(transcript)),
                   llm     |-> <<inv>>]

(***************************************************************************)
(* Inputs                                                                  *)
(***************************************************************************)
\* length of one long segment text; three such lines exceed 5 windows
LongTextLen == 3500

Rep(c, n) == [i \in 1..n |-> c]

\* "HH:MM:SS.cc"
Hms(h, m, sec, c) ==
    Pad2(h) \o <<":">> \o Pad2(m) \o <<":">> \o Pad2(sec) \o <<".">> \o Pad2(c)

\* "[HH:MM:SS.cc - HH:MM:SS.cc] text"
HmsLine(a, b, text) ==
    <<"[">> \o a \o <<" ", "-", " ">> \o b \o <<"]", " ">> \o text

\* two well-formed lines around one line that is not time-coded
ShortTranscript ==
    Join(<<"\n">>,
         <<HmsLine(Hms(0, 0, 1, 0), Hms(0, 0, 2, 50), <<"a", "b">>),
           <<"g", "a", "r", "b", "a", "g", "e">>,
           HmsLine(Hms(0, 1, 5, 0), Hms(1, 1, 5, 0), <<"c", "d">>)>>)

\* a transcript as transcribe writes it
WhisperTranscript ==
    SerializeSegments(<<[start |-> 100, end |-> 250, text |-> <<"a", "b">>]>>)

\* three long well-formed lines
LongTranscript ==
    Join(<<"\n">>,
         <<HmsLine(Hms(0, 0, 0, 0), Hms(0, 10, 0, 0), Rep("a", LongTextLen)),
           HmsLine(Hms(0, 10, 0, 0), Hms(0, 20, 0, 0), Rep("b", LongTextLen)),
           HmsLine(Hms(0, 20, 0, 0), Hms(0, 30, 0, 0), Rep("c", LongTextLen))>>)

Transcripts ==
    {None, Some(<<>>), Some(ShortTranscript), Some(WhisperTranscript),
     Some(LongTranscript)}

Doc(text, score) == [page_content |-> text, score |-> score]

\* the hits of a collection for the request's query, best first
RankedHits ==
    <<Doc(<<"a", "b">>, 9), Doc(<<"z", "z">>, 8), Doc(<<" ", "c", "d", "\n">>, 7),
      Doc(<<"x", "c", "d", "y">>, 3), Doc(<<"a">>, 1)>>

Collections == {None, Some(<<>>), Some(RankedHits)}

Questions == {<<>>, <<"q">>}

\* what llm.invoke returns when it returns
LLMResponses == {<<" ">>, <<"o", "k">>, <<" ", "o", "k", "\n">>}

\* None: llm.invoke raises
InvokeOutcomes == {None} \cup {Some(r) : r \in LLMResponses}

OnlyLecture(v) == [l \in Lectures |-> IF l = "L1" THEN v ELSE None]

(***************************************************************************)
(* api/routes/lectures.py: POST /{lecture_id}/ask                          *)
(***************************************************************************)
\* the conversion of sources to TimestampSource
ToTimestampSources(sources) ==
    [k \in 1..Len(sources) |->
        IF "start_time" \in DOMAIN sources[k]
        THEN sources[k]
        ELSE [text            |-> sources[k].text,
              start_time      |-> 0,
              end_time        |-> 0,
              start_str       |-> Hms(0, 0, 0, 0),
              end_str         |-> Hms(0, 0, 0, 0),
              video_timestamp |-> <<"0", "s">>]]

\* a variant in which the reported error is ignored
UseFallbackNever(result) == FALSE

\* `if result["error"]:`
UseFallback(result) == ~Falsy(result.error)

\* the dict run_lecture_qa builds from the final state
QaResult(s) == [answer |-> s.answer, sources |-> s.sources, error |-> s.error]

\* ownership check, then run_lecture_qa builds the initial state
ask_begin ==
    /\ pc = "idle"
    /\ IF owned
       THEN /\ pc' = "load_transcript"
            /\ state' = InitialState("L1", question)
       ELSE /\ pc' = "denied"
            /\ UNCHANGED state
    /\ UNCHANGED <<storeVars, requestVars, response, wfResult, vsCalls, llmLog,
                   aqCalls, whisper, sumVars, multiVars, upload>>

\* one workflow node ran: r is its result, next the node the edge leads to
NodeStep(r, next) ==
    /\ state' = r.st
    /\ vsCalls' = vsCalls + r.vs
    /\ llmLog' = llmLog \o r.llm
    /\ pc' = next
    /\ UNCHANGED <<storeVars, requestVars, response, wfResult, aqCalls, whisper, sumVars,
                   multiVars, upload>>

LoadTranscript ==
    /\ pc = "load_transcript"
    /\ \E loadRaises \in BOOLEAN :
           NodeStep(load_transcript_node(state, loadRaises), "retrieve_chunks")

RetrieveChunks ==
    /\ pc = "retrieve_chunks"
    /\ \E infoRaises \in BOOLEAN, searchRaises \in BOOLEAN :
           NodeStep(retrieve_relevant_chunks(state, infoRaises, searchRaises),
                    "generate_answer")

GenerateAnswer ==
    /\ pc = "generate_answer"
    /\ \E ctorRaises \in BOOLEAN, inv \in InvokeOutcomes :
           NodeStep(generate_answer_node(state, ctorRaises, inv), "extract_sources")

ExtractSources ==
    /\ pc = "extract_sources"
    /\ NodeStep(extract_sources_node(state), "workflow_end")

\* the fallback call `ask_question(load_index(lecture_id), question, lecture_id)`
\* made at position `at`; when it raises control goes to `onRaise`
CallAskQuestion(aq, onRaise) ==
    /\ aqCalls' = aqCalls + 1
    /\ llmLog' = llmLog \o aq.llm
    /\ IF aq.raised
       THEN /\ pc' = onRaise
            /\ UNCHANGED response
       ELSE /\ pc' = "returned"
            /\ response' = Some([answer  |-> Some(aq.answer),
                                 sources |-> ToTimestampSources(aq.sources)])

\* the try block: run_lecture_qa returned or raised (wfRaises), then the
\* fallback or the workflow's result, then the response
ask_try ==
    /\ pc = "workflow_end"
    /\ \E wfRaises \in BOOLEAN, loadRaises \in BOOLEAN, ctorRaises \in BOOLEAN,
          inv \in InvokeOutcomes :
          IF wfRaises
          THEN /\ wfResult' = None
               /\ pc' = "except"
               /\ UNCHANGED <<response, aqCalls, llmLog>>
          ELSE /\ wfResult' = Some(QaResult(state))
               /\ IF UseFallback(QaResult(state))
                  THEN CallAskQuestion(ask_question("L1", loadRaises, ctorRaises, inv),
                                       "except")
                  ELSE /\ response' = Some([answer  |-> state.answer,
                                            sources |-> ToTimestampSources(state.sources)])
                       /\ pc' = "returned"
                       /\ UNCHANGED <<aqCalls, llmLog>>
    /\ UNCHANGED <<storeVars, requestVars, state, vsCalls, whisper, sumVars, multiVars, upload>>

\* the except block: the final fallback; an exception of ask_question raised
\* here leaves the endpoint
ask_except ==
    /\ pc = "except"
    /\ \E loadRaises \in BOOLEAN, ctorRaises \in BOOLEAN, inv \in InvokeOutcomes :
           CallAskQuestion(ask_question("L1", loadRaises, ctorRaises, inv), "raised")
    /\ UNCHANGED <<storeVars, requestVars, state, wfResult, vsCalls, whisper, sumVars,
                   multiVars, upload>>

\* the stores hold at most lecture L1, with transcript t and collection c
StoresOf(t, c) ==
    /\ transcriptFile = OnlyLecture(t)
    /\ collections = OnlyLecture(c)
    /\ durationFile = [l \in Lectures |-> None]
    /\ mediaFile = [l \in Lectures |-> FALSE]
    /\ dbLectures = [l \in Lectures |-> None]
    /\ pdfFiles = {}

QaIdle ==
    /\ state = InitialState("L1", <<>>)
    /\ wfResult = None
    /\ vsCalls = 0
    /\ llmLog = <<>>
    /\ aqCalls = 0

MultiIdle ==
    /\ lecture_ids = <<>>
    /\ mstate = None
    /\ all_results = <<>>
    /\ searchLog = <<>>

UploadIdle == upload = None

SumIdle ==
    /\ sstate = None
    /\ stages = <<>>
    /\ gcs = None

InitAsk ==
    /\ pc = "idle"
    /\ \E t \in Transcripts, c \in Collections : StoresOf(t, c)
    /\ owned \in BOOLEAN
    /\ question \in Questions
    /\ response = None
    /\ QaIdle
    /\ whisper = <<>>
    /\ MultiIdle
    /\ UploadIdle
    /\ SumIdle

NextAsk ==
    \/ ask_begin
    \/ LoadTranscript
    \/ RetrieveChunks
    \/ GenerateAnswer
    \/ ExtractSources
    \/ ask_try
    \/ ask_except

SpecAsk == InitAsk /\ [][NextAsk]_vars

(***************************************************************************)
(* transcribe, then GET /{lecture_id}/transcript                           *)
(***************************************************************************)
\* most segments one recording yields
MaxSegs == 2

\* segment boundaries, in centiseconds
SegTimes == {0, 100, 250, 366500}

SegTexts == {<<" ", "H", "i">>, <<"o", "k">>}

WhisperSegs ==
    {[start |-> a, end |-> b, text |-> x] :
        a \in SegTimes, b \in SegTimes, x \in SegTexts}

\* the engine yields segments with start <= end, in temporal order
WhisperOutputs ==
    {w \in UNION {[1..n -> WhisperSegs] : n \in 0..MaxSegs} :
        /\ \A k \in 1..Len(w) : w[k].start <= w[k].end
        /\ \A k \in 1..(Len(w) - 1) : w[k].start <= w[k + 1].start}

\* info.duration, in centiseconds
Durations == {0, 366500}

\* transcribe(audio_path, lecture_id): serializes the segments and saves the
\* transcript and the duration of the lecture
transcribe ==
    /\ pc = "idle"
    /\ \E d \in Durations :
          /\ transcriptFile' = [transcriptFile EXCEPT !["L1"] = Some(SerializeSegments(whisper))]
          /\ durationFile' = [durationFile EXCEPT !["L1"] = Some(d)]
    /\ pc' = "transcribed"
    /\ UNCHANGED <<pdfFiles, mediaFile, collections, dbLectures, requestVars, response, qaVars,
                   whisper, sumVars, multiVars, upload>>

\* segments[-1].end_time if segments else 0.0
TotalDuration(segs) == IF Len(segs) = 0 THEN 0 ELSE segs[Len(segs)].end_time

\* GET /{lecture_id}/transcript
get_transcript ==
    /\ pc = "transcribed"
    /\ IF ~owned
       THEN pc' = "denied" /\ UNCHANGED response
       ELSE IF Falsy(transcriptFile["L1"])
       THEN pc' = "not_found" /\ UNCHANGED response
       ELSE LET segs == parse_transcript_with_timestamps(transcriptFile["L1"][1])
            IN  /\ response' = Some([segments |-> segs,
                                     total_duration |-> TotalDuration(segs)])
                /\ pc' = "returned"
    /\ UNCHANGED <<storeVars, requestVars, qaVars, whisper, sumVars, multiVars, upload>>

InitRoundTrip ==
    /\ pc = "idle"
    /\ StoresOf(None, None)
    /\ owned \in BOOLEAN
    /\ question = <<>>
    /\ response = None
    /\ QaIdle
    /\ whisper \in WhisperOutputs
    /\ MultiIdle
    /\ UploadIdle
    /\ SumIdle

NextRoundTrip ==
    \/ transcribe
    \/ get_transcript

SpecRoundTrip == InitRoundTrip /\ [][NextRoundTrip]_vars

\* C4: for every ordered sequence of (start, end, text) segments that
\* transcribe serializes, parsing the transcript yields the same number of
\* segments, in the same order, with the same start and end times.
C4_SerializeParseRoundTrip ==
    pc = "returned" =>
        LET segs == response[1].segments
        IN  /\ Len(segs) = Len(whisper)
            /\ \A k \in 1..Len(segs) :
                   /\ segs[k].start_time = whisper[k].start
                   /\ segs[k].end_time = whisper[k].end

(***************************************************************************)
(* POST /upload                                                            *)
(***************************************************************************)
CHUNK_SIZE == 800

CHUNK_OVERLAP == 150

SUMMARY_DIRECT_MAX == 4000

\* text of the long segment of an uploaded recording: several index chunks
ChunkyTextLen == 1500

\* chunk_text(transcript): fixed-width windows of CHUNK_SIZE characters, each
\* starting CHUNK_SIZE - CHUNK_OVERLAP after the previous one
chunk_text(text) ==
    LET step == CHUNK_SIZE - CHUNK_OVERLAP
        n    == (Len(text) + step - 1) \div step
    IN  [k \in 1..n |-> Slice(text, (k - 1) * step, (k - 1) * step + CHUNK_SIZE)]

\* the recordings uploaded: silent, one short segment, one long segment
UploadRecordings ==
    {<<>>,
     <<[start |-> 100, end |-> 250, text |-> <<"o", "k">>]>>,
     <<[start |-> 0, end |-> 250, text |-> <<" ", "H", "i">>],
       [start |-> 250, end |-> 366500, text |-> Rep("a", ChunkyTextLen)]>>}

\* file.filename
UploadFilename == <<"a", "_", "b", "-", "c", ".", "m", "p", "3">>

\* the `title` form field
UploadTitles == {None, Some(<<" ">>), Some(<<"T">>)}

\* the id of the requesting user
CurrentUser == 1

\* file.filename.replace('_', ' ').replace('-', ' ').split('.')[0]
TitleFromFilename(name) ==
    LET spaced == [i \in 1..Len(name) |->
                      IF name[i] \in {"_", "-"} THEN " " ELSE name[i]]
        dots   == {i \in 1..Len(name) : name[i] = "."}
    IN  IF dots = {} THEN spaced
        ELSE SubSeq(spaced, 1, (CHOOSE i \in dots : \A j \in dots : i <= j) - 1)

\* title if title and title.strip() else <derived from the file name>
LectureTitle(title, name) ==
    IF ~Falsy(title) /\ Strip(title[1]) # <<>> THEN title[1]
    ELSE TitleFromFilename(name)

\* the locals of upload_lecture; `fault` names the call that raised, if any
UploadLocals(title) ==
    [lecture_id      |-> "L1",
     title           |-> title,
     transcript      |-> None,
     chunks          |-> <<>>,
     summary         |-> None,
     collection_name |-> None,
     fault           |-> "none"]

\* the except block of upload_lecture: the uploaded file is removed and the
\* request fails with HTTP 500
UploadAbort(fault) ==
    /\ mediaFile' = [mediaFile EXCEPT !["L1"] = FALSE]
    /\ upload' = Some([upload[1] EXCEPT !.fault = fault])
    /\ pc' = "failed"

\* size and type checks, then the file is streamed to disk
upload_receive ==
    /\ pc = "idle"
    /\ \E tooLarge \in BOOLEAN, badType \in BOOLEAN, writeRaises \in BOOLEAN,
          title \in UploadTitles :
          IF tooLarge \/ badType
          THEN /\ pc' = "rejected"
               /\ UNCHANGED <<mediaFile, upload>>
          ELSE /\ upload' = Some([UploadLocals(title) EXCEPT
                                      !.fault = IF writeRaises THEN "write" ELSE "none"])
               /\ mediaFile' = [mediaFile EXCEPT !["L1"] = ~writeRaises]
               /\ pc' = IF writeRaises THEN "failed" ELSE "transcribing"
    /\ UNCHANGED <<pdfFiles, transcriptFile, durationFile, collections, dbLectures, requestVars,
                   response, qaVars, whisper, sumVars, multiVars>>

\* transcribe(file_path, lecture_id), then chunk_text(transcript)
upload_transcribe ==
    /\ pc = "transcribing"
    /\ \E engineRaises \in BOOLEAN, d \in Durations :
          IF engineRaises
          THEN /\ UploadAbort("transcribe")
               /\ UNCHANGED <<transcriptFile, durationFile>>
          ELSE LET transcript == SerializeSegments(whisper)
               IN  /\ transcriptFile' = [transcriptFile EXCEPT !["L1"] = Some(transcript)]
                   /\ durationFile' = [durationFile EXCEPT !["L1"] = Some(d)]
                   /\ upload' = Some([upload[1] EXCEPT
                                          !.transcript = Some(transcript),
                                          !.chunks = chunk_text(transcript)])
                   /\ pc' = "summarizing"
                   /\ UNCHANGED mediaFile
    /\ UNCHANGED <<pdfFiles, collections, dbLectures, requestVars, response, qaVars,
                   whisper, sumVars, multiVars>>

\* generate_chunked_summary(transcript): a transcript of at most 4000
\* characters is summarized by one generation call (the transcripts uploaded
\* here are that short)
upload_summarize ==
    /\ pc = "summarizing"
    /\ Len(upload[1].transcript[1]) <= SUMMARY_DIRECT_MAX
    /\ \E ctorRaises \in BOOLEAN, inv \in InvokeOutcomes :
          IF ctorRaises \/ inv = None
          THEN /\ UploadAbort("summary")
               /\ llmLog' = IF ctorRaises THEN llmLog ELSE Append(llmLog, inv)
          ELSE /\ upload' = Some([upload[1] EXCEPT !.summary = Some(Strip(inv[1]))])
               /\ llmLog' = Append(llmLog, inv)
               /\ pc' = "indexing"
               /\ UNCHANGED mediaFile
    /\ UNCHANGED <<pdfFiles, transcriptFile, durationFile, collections, dbLectures, requestVars,
                   response, state, wfResult, vsCalls, aqCalls, whisper, sumVars, multiVars>>

\* f"lecture_{lecture_id}"
CollectionName(lecture) == <<"lecture_", lecture>>

\* a variant of create_collection that recreates an existing collection
RecreateCollection(colls, lecture, clientRaises) ==
    IF clientRaises THEN colls ELSE [colls EXCEPT ![lecture] = Some(<<>>)]

\* QdrantVectorStore.create_collection: an error of the client (the collection
\* exists, the store is unreachable) is printed and swallowed
create_collection(colls, lecture, clientRaises) ==
    IF clientRaises \/ colls[lecture] # None THEN colls
    ELSE [colls EXCEPT ![lecture] = Some(<<>>)]

\* the points add_texts builds: one per chunk, with the metadata of save_index
IndexPoints(chunks, lecture, user) ==
    [k \in 1..Len(chunks) |->
        [page_content |-> chunks[k],
         lecture_id   |-> lecture,
         user_id      |-> user,
         chunk_index  |-> k - 1]]

\* save_index(chunks, lecture_id, current_user.id): create_collection, then
\* add_texts (embed_documents, client.upsert); an upsert into a collection
\* that does not exist raises
upload_index ==
    /\ pc = "indexing"
    /\ \E createRaises \in BOOLEAN, embedRaises \in BOOLEAN, upsertRaises \in BOOLEAN :
          LET created == create_collection(collections, "L1", createRaises)
              points  == IndexPoints(upload[1].chunks, "L1", CurrentUser)
          IN  IF embedRaises
              THEN /\ collections' = created
                   /\ UploadAbort("embed")
              ELSE IF upsertRaises \/ created["L1"] = None
              THEN /\ collections' = created
                   /\ UploadAbort(IF createRaises THEN "create" ELSE "upsert")
              ELSE /\ collections' = [created EXCEPT !["L1"] = Some(created["L1"][1] \o points)]
                   /\ upload' = Some([upload[1] EXCEPT
                                          !.collection_name = Some(CollectionName("L1")),
                                          !.fault = IF createRaises THEN "create" ELSE "none"])
                   /\ pc' = "recording"
                   /\ UNCHANGED mediaFile
    /\ vsCalls' = vsCalls + 1
    /\ UNCHANGED <<pdfFiles, transcriptFile, durationFile, dbLectures, requestVars, response, state,
                   wfResult, llmLog, aqCalls, whisper, sumVars, multiVars>>

\* load_duration, create_lecture_record, and the response
upload_record ==
    /\ pc = "recording"
    /\ \E dbRaises \in BOOLEAN :
          IF dbRaises
          THEN /\ UploadAbort("record")
               /\ UNCHANGED <<dbLectures, response>>
          ELSE /\ dbLectures' =
                      [dbLectures EXCEPT !["L1"] =
                          Some([lecture_id        |-> "L1",
                                title             |-> LectureTitle(upload[1].title,
                                                                   UploadFilename),
                                user_id           |-> CurrentUser,
                                filename          |-> UploadFilename,
                                duration          |-> durationFile["L1"],
                                qdrant_collection |-> upload[1].collection_name[1],
                                summary           |-> upload[1].summary[1]])]
               /\ response' = Some([lecture_id |-> "L1"])
               /\ pc' = "returned"
               /\ UNCHANGED <<mediaFile, upload>>
    /\ UNCHANGED <<pdfFiles, transcriptFile, durationFile, collections, requestVars, qaVars,
                   whisper, sumVars, multiVars>>

InitUpload ==
    /\ pc = "idle"
    /\ StoresOf(None, None)
    /\ owned = TRUE
    /\ question = <<>>
    /\ response = None
    /\ QaIdle
    /\ whisper \in UploadRecordings
    /\ MultiIdle
    /\ UploadIdle
    /\ SumIdle

NextUpload ==
    \/ upload_receive
    \/ upload_transcribe
    \/ upload_summarize
    \/ upload_index
    \/ upload_record

SpecUpload == InitUpload /\ [][NextUpload]_vars

\* the embedding backend or the vector store failed while the collection was
\* created or the chunks were indexed
IndexingFailed == upload # None /\ upload[1].fault \in {"create", "embed", "upsert"}

\* C7: when the embedding backend or the vector store fails while the
\* collection is created or the chunks are indexed, the upload is not aborted:
\* the lecture record is still created and the transcript stays available.
C7_IndexFailureTolerated ==
    (pc \in {"returned", "failed"} /\ IndexingFailed)
        => (/\ pc = "returned"
            /\ dbLectures["L1"] # None
            /\ ~IsNone(transcriptFile["L1"]))

(***************************************************************************)
(* POST /multi-search: multi_lecture_search, run_multi_lecture_search and  *)
(* the workflow search_all_lectures -> consolidate_answer                  *)
(***************************************************************************)
RESULT_CAP == 20

\* longest request: a pair of lecture ids repeated this many times
MaxRepeat == 3

\* most backend faults injected into one request
MaxFaults == 2

OtherUser == 2

\* a row of the lectures table
LectureRow(lecture, user) ==
    [lecture_id        |-> lecture,
     title             |-> <<"T">>,
     user_id           |-> user,
     filename          |-> UploadFilename,
     duration          |-> Some(366500),
     qdrant_collection |-> CollectionName(lecture),
     summary           |-> <<"o", "k">>]

\* the hits of the collections of L2 and L3 for the request's query
Hits2 ==
    <<Doc(<<"c", "d">>, 10), Doc(<<"a", "b">>, 8), Doc(<<"q">>, 5),
      Doc(<<"a", "b", " ">>, 2)>>

Hits3 == <<Doc(<<"a", "b">>, 6), Doc(<<"z">>, 4)>>

RECURSIVE RepeatSeq(_, _)
RepeatSeq(base, n) == IF n = 0 THEN <<>> ELSE base \o RepeatSeq(base, n - 1)

\* payload.lecture_ids: every list of at most two ids, and two long lists that
\* repeat a pair
MultiRequests ==
    {<<>>}
        \cup {<<a>> : a \in Lectures}
        \cup {<<a, b>> : a \in Lectures, b \in Lectures}
        \cup {RepeatSeq(b, MaxRepeat) : b \in {<<"L1", "L2">>, <<"L3", "L1">>}}

\* payload.limit: Optional[int]
Limits == {None, Some(2), Some(0 - 1)}

\* results[:limit]
PySliceTo(s, limit) ==
    IF limit = None THEN s
    ELSE IF limit[1] >= 0 THEN Take(s, limit[1])
    ELSE Take(s, Max(0, Len(s) + limit[1]))

\* a variant of get_user_lecture_ids that returns every lecture of the table
AllLectureIds(user) == {l \in Lectures : dbLectures[l] # None}

\* get_user_lecture_ids(db, user)
get_user_lecture_ids(user) ==
    {l \in Lectures : dbLectures[l] # None /\ dbLectures[l][1].user_id = user}

\* the result dict of search_lecture_node for one document: joined with the
\* first matching segment, or (for-else) the empty citation
SearchResultOf(lecture_id, doc, segs) ==
    LET k == FirstMatch(doc.page_content, segs)
    IN  IF k # 0
        THEN [lecture_id      |-> lecture_id,
              text            |-> doc.page_content,
              start_time      |-> segs[k].start_time,
              end_time        |-> segs[k].end_time,
              start_str       |-> segs[k].start_str,
              end_str         |-> segs[k].end_str,
              video_timestamp |-> format_timestamp_for_video(segs[k].start_time),
              relevance_score |-> doc.score]
        ELSE [lecture_id      |-> lecture_id,
              text            |-> doc.page_content,
              start_time      |-> 0,
              end_time        |-> 0,
              start_str       |-> Hms(0, 0, 0, 0),
              end_str         |-> Hms(0, 0, 0, 0),
              video_timestamp |-> <<"0", "s">>,
              relevance_score |-> doc.score]

\* a variant of search_lecture_node in which a lecture that cannot be searched
\* contributes an empty citation instead of nothing
SearchLectureSkipAsHit(lecture_id, infoRaises, searchRaises, loadRaises) ==
    IF get_collection_info(lecture_id, infoRaises) = None \/ searchRaises
    THEN <<SearchResultOf(lecture_id, Doc(<<>>, 0), <<>>)>>
    ELSE IF loadRaises \/ Falsy(transcriptFile[lecture_id]) THEN <<>>
    ELSE LET docs == similarity_search(lecture_id, TOP_K)
             segs == parse_transcript_with_timestamps(transcriptFile[lecture_id][1])
         IN  [k \in 1..Len(docs) |-> SearchResultOf(lecture_id, docs[k], segs)]

\* search_lecture_node(state, lecture_id): [] when the collection is missing,
\* when any call raises, and when the transcript is missing or empty
search_lecture_node(lecture_id, infoRaises, searchRaises, loadRaises) ==
    IF get_collection_info(lecture_id, infoRaises) = None THEN <<>>
    ELSE IF searchRaises \/ loadRaises THEN <<>>
    ELSE LET docs       == similarity_search(lecture_id, TOP_K)
             transcript == transcriptFile[lecture_id]
         IN  IF Falsy(transcript) THEN <<>>
             ELSE LET segs == parse_transcript_with_timestamps(transcript[1])
                  IN  [k \in 1..Len(docs) |->
                          SearchResultOf(lecture_id, docs[k], segs)]

\* list.sort(key=relevance_score, reverse=True): stable, descending
InsertByScore(r, sorted) ==
    LET k == Cardinality({i \in 1..Len(sorted) :
                             sorted[i].relevance_score >= r.relevance_score})
    IN  SubSeq(sorted, 1, k) \o <<r>> \o SubSeq(sorted, k + 1, Len(sorted))

RECURSIVE SortByScore(_)
SortByScore(s) ==
    IF s = <<>> THEN <<>>
    ELSE InsertByScore(s[Len(s)], SortByScore(SubSeq(s, 1, Len(s) - 1)))

\* a variant of the end of search_all_lectures_node that truncates first
CapThenRank(all) == SortByScore(Take(all, RESULT_CAP))

\* the end of search_all_lectures_node: sort, then all_results[:20]
RankAndCap(all) == Take(IF all # <<>> THEN SortByScore(all) ELSE all, RESULT_CAP)

\* MultiLectureState(query=query, lecture_ids=lecture_ids)
InitialMultiState(query, ids) ==
    [query               |-> query,
     lecture_ids         |-> ids,
     results             |-> <<>>,
     consolidated_answer |-> None,
     error               |-> None]

\* the lectures searched so far whose search met a fault
FaultCount == Cardinality({i \in 1..Len(searchLog) : searchLog[i].fault # "none"})

\* multi_lecture_search up to the start of the workflow: every requested id
\* must be a lecture of the requester
multi_begin ==
    /\ pc = "idle"
    /\ \E ids \in MultiRequests, dbRaises \in BOOLEAN :
          LET invalid_lectures ==
                  {ids[i] : i \in 1..Len(ids)} \ get_user_lecture_ids(CurrentUser)
          IN  /\ lecture_ids' = ids
              /\ IF dbRaises THEN pc' = "failed" /\ UNCHANGED mstate
                 ELSE IF invalid_lectures # {} THEN pc' = "denied" /\ UNCHANGED mstate
                 ELSE /\ mstate' = Some(InitialMultiState(question, ids))
                      /\ pc' = "search_all_lectures"
    /\ UNCHANGED <<storeVars, requestVars, response, qaVars, whisper, sumVars, all_results,
                   searchLog, upload>>

\* one iteration of `for lecture_id in state.lecture_ids` in
\* search_all_lectures_node
SearchLecture ==
    /\ pc = "search_all_lectures"
    /\ Len(searchLog) < Len(lecture_ids)
    /\ \E fault \in {"none", "info", "search", "load"} :
          LET lecture_id == mstate[1].lecture_ids[Len(searchLog) + 1]
              results    == search_lecture_node(lecture_id, fault = "info",
                                                fault = "search", fault = "load")
              searched   == get_collection_info(lecture_id, fault = "info") # None
              docs       == IF searched /\ fault # "search"
                            THEN Some(similarity_search(lecture_id, TOP_K))
                            ELSE None
          IN  /\ fault # "none" => FaultCount < MaxFaults
              /\ fault \in {"search", "load"} => collections[lecture_id] # None
              /\ all_results' = all_results \o results
              /\ searchLog' = Append(searchLog, [lecture_id |-> lecture_id,
                                                 fault      |-> fault,
                                                 docs       |-> docs,
                                                 results    |-> results])
              /\ vsCalls' = vsCalls + (IF searched THEN 2 ELSE 1)
    /\ UNCHANGED <<storeVars, pc, requestVars, response, state, wfResult, llmLog,
                   aqCalls, whisper, sumVars, lecture_ids, mstate, upload>>

\* the end of search_all_lectures_node
RankResults ==
    /\ pc = "search_all_lectures"
    /\ Len(searchLog) = Len(lecture_ids)
    /\ mstate' = Some([mstate[1] EXCEPT !.results = RankAndCap(all_results)])
    /\ pc' = "consolidate_answer"
    /\ UNCHANGED <<storeVars, requestVars, response, qaVars, whisper, sumVars, lecture_ids,
                   all_results, searchLog, upload>>

CONSOLIDATE_TOP == 10

\* a variant of the context that lists every result
ConsolidateContextAll(results) ==
    Join(<<"\n", "\n">>,
         [k \in 1..Len(results) |->
             <<"Lecture ", results[k].lecture_id, " (">> \o results[k].video_timestamp
                 \o <<"): ">> \o results[k].text])

\* the context of the prompt of consolidate_answer_node: one line
\* f"Lecture {lecture_id} ({video_timestamp}): {text}" per result of
\* state.results[:10], joined by blank lines
ConsolidateContext(results) ==
    LET top_results == Take(results, CONSOLIDATE_TOP)
    IN  Join(<<"\n", "\n">>,
             [k \in 1..Len(top_results) |->
                 <<"Lecture ", top_results[k].lecture_id, " (">>
                     \o top_results[k].video_timestamp
                     \o <<"): ">> \o top_results[k].text])

\* consolidate_answer_node
ConsolidateAnswer ==
    /\ pc = "consolidate_answer"
    /\ IF mstate[1].results = <<>>
       THEN /\ mstate' = Some([mstate[1] EXCEPT !.consolidated_answer =
                                   Some(Lit("No relevant information found across the lectures."))])
            /\ UNCHANGED <<llmLog, stages>>
       ELSE \E ctorRaises \in BOOLEAN, inv \in {None, Some(<<" ", "o", "k", "\n">>)} :
               /\ IF ctorRaises \/ inv = None
                  THEN /\ mstate' = Some([mstate[1] EXCEPT !.error =
                                              Some(Lit("Error consolidating answer"))])
                       /\ llmLog' = IF ctorRaises THEN llmLog ELSE Append(llmLog, inv)
                  ELSE /\ mstate' = Some([mstate[1] EXCEPT !.consolidated_answer =
                                              Some(Strip(inv[1]))])
                       /\ llmLog' = Append(llmLog, inv)
               /\ stages' = Append(stages,
                     [node       |-> "consolidate_answer",
                      ctorRaises |-> ctorRaises,
                      reply      |-> IF ctorRaises THEN None ELSE inv,
                      sent       |-> IF ctorRaises THEN None
                                     ELSE Some(ConsolidateContext(mstate[1].results)),
                      calls      |-> IF ctorRaises THEN 0 ELSE 1])
    /\ pc' = "multi_end"
    /\ UNCHANGED <<storeVars, requestVars, response, state, wfResult, vsCalls, aqCalls,
                   whisper, sstate, gcs, lecture_ids, all_results, searchLog, upload>>

\* the return of run_multi_lecture_search and the rest of multi_lecture_search
multi_return ==
    /\ pc = "multi_end"
    /\ \E wfRaises \in BOOLEAN, limit \in Limits :
          IF wfRaises \/ ~Falsy(mstate[1].error)
          THEN pc' = "failed" /\ UNCHANGED response
          ELSE /\ response' = Some([results             |-> PySliceTo(mstate[1].results, limit),
                                    consolidated_answer |-> mstate[1].consolidated_answer,
                                    total_found         |-> Len(mstate[1].results),
                                    query               |-> question])
               /\ pc' = "returned"
    /\ UNCHANGED <<storeVars, requestVars, qaVars, whisper, sumVars, multiVars, upload>>

InitMulti ==
    /\ pc = "idle"
    /\ \E t2 \in {None, Some(WhisperTranscript), Some(ShortTranscript)},
          c3 \in {None, Some(Hits3)}, u3 \in {CurrentUser, OtherUser} :
          /\ u3 = OtherUser => (t2 = Some(ShortTranscript) /\ c3 = Some(Hits3))
          /\ transcriptFile = [l \in Lectures |->
                                  IF l = "L2" THEN t2 ELSE Some(ShortTranscript)]
          /\ collections = [l \in Lectures |->
                               IF l = "L1" THEN Some(RankedHits)
                               ELSE IF l = "L2" THEN Some(Hits2) ELSE c3]
          /\ dbLectures = [l \in Lectures |->
                              Some(LectureRow(l, IF l = "L3" THEN u3 ELSE CurrentUser))]
    /\ durationFile = [l \in Lectures |-> Some(366500)]
    /\ mediaFile = [l \in Lectures |-> TRUE]
    /\ pdfFiles = {}
    /\ owned = TRUE
    /\ question = <<"q">>
    /\ response = None
    /\ QaIdle
    /\ whisper = <<>>
    /\ MultiIdle
    /\ UploadIdle
    /\ SumIdle

NextMulti ==
    \/ multi_begin
    \/ SearchLecture
    \/ RankResults
    \/ ConsolidateAnswer
    \/ multi_return

SpecMulti == InitMulti /\ [][NextMulti]_vars

(***************************************************************************)
(* Claims about the multi-lecture search                                   *)
(***************************************************************************)
\* the result is the document joined with its first matching segment, or the
\* document with the empty citation
IsResultFor(r, lecture_id, doc, transcript) ==
    LET segs == IF Falsy(transcript) THEN <<>>
                ELSE parse_transcript_with_timestamps(transcript[1])
        k    == FirstMatch(doc.page_content, segs)
    IN  /\ r.lecture_id = lecture_id
        /\ r.text = doc.page_content
        /\ r.relevance_score = doc.score
        /\ IF k # 0
           THEN /\ r.start_time = segs[k].start_time
                /\ r.end_time = segs[k].end_time
                /\ r.start_str = segs[k].start_str
           ELSE /\ r.start_time = 0
                /\ r.end_time = 0
                /\ r.start_str = Hms(0, 0, 0, 0)
                /\ r.video_timestamp = <<"0", "s">>

\* C8: for every lecture whose collection exists, search_lecture_node returns
\* exactly one result per document the similarity search returned, joined
\* with the first matching segment or carrying the empty citation, also when
\* the transcript cannot be loaded or has no parseable segment.
C8_OneResultPerDocument ==
    \A i \in 1..Len(searchLog) :
        LET e == searchLog[i]
        IN  e.docs # None =>
                /\ Len(e.results) = Len(e.docs[1])
                /\ \A k \in 1..Len(e.results) :
                       IsResultFor(e.results[k], e.lecture_id, e.docs[1][k],
                                   transcriptFile[e.lecture_id])

\* search_all_lectures_node has returned
SearchDone == pc = "consolidate_answer"

CountIn(seq, r) == Cardinality({i \in 1..Len(seq) : seq[i] = r})

\* C9: the results of search_all_lectures_node are the pooled results in
\* non-increasing order of relevance score, at most 20 of them, and they are
\* the highest-scored of the pool: nothing dropped scores higher than
\* something kept.
C9_RankedAndCapped ==
    SearchDone =>
        LET res == mstate[1].results
        IN  /\ Len(res) = Min(RESULT_CAP, Len(all_results))
            /\ \A i \in 1..Len(res), j \in 1..Len(res) :
                   i < j => res[i].relevance_score >= res[j].relevance_score
            /\ \A i \in 1..Len(res) : CountIn(res, res[i]) <= CountIn(all_results, res[i])
            /\ \A d \in 1..Len(all_results), k \in 1..Len(res) :
                   CountIn(res, all_results[d]) < CountIn(all_results, all_results[d])
                       => all_results[d].relevance_score <= res[k].relevance_score

\* more than 20 results were pooled and a result of a later lecture of the
\* request precedes the results of the first one
C9_Witness ==
    /\ pc = "consolidate_answer"
    /\ Len(all_results) > RESULT_CAP
    /\ Len(mstate[1].results) = RESULT_CAP
    /\ all_results[1].lecture_id = "L1"
    /\ mstate[1].results[1].lecture_id = "L2"
    /\ mstate[1].results[1].relevance_score > all_results[1].relevance_score

\* the log entries of the lectures that were searched
SearchedEntries == SelectSeq(searchLog, LAMBDA e : e.docs # None)

RECURSIVE PoolOf(_)
\* what the searched lectures alone contribute, in request order
PoolOf(entries) ==
    IF entries = <<>> THEN <<>>
    ELSE search_lecture_node(entries[1].lecture_id, FALSE, FALSE,
                             entries[1].fault = "load")
             \o PoolOf(Tail(entries))

\* C10: a lecture id whose collection does not exist, or whose search raises,
\* contributes no results and does not set `error`; the pooled and the
\* returned results are exactly those of the request without it.
C10_MissingCollectionSkipped ==
    (pc \in {"search_all_lectures", "consolidate_answer"}) =>
        /\ mstate[1].error = None
        /\ \A i \in 1..Len(searchLog) :
               searchLog[i].docs = None => searchLog[i].results = <<>>
        /\ all_results = PoolOf(SearchedEntries)
        /\ pc = "consolidate_answer"
               => mstate[1].results = RankAndCap(PoolOf(SearchedEntries))

\* a lecture without a collection and a lecture whose search raised were
\* skipped before a lecture that contributed results
C10_Witness ==
    /\ pc = "consolidate_answer"
    /\ \E i, j, k \in 1..Len(searchLog) :
          /\ i < k /\ j < k
          /\ searchLog[i].docs = None /\ collections[searchLog[i].lecture_id] = None
          /\ searchLog[j].docs = None /\ searchLog[j].fault = "search"
          /\ searchLog[k].results # <<>>
    /\ mstate[1].results # <<>>

\* the ids of the request that are not lectures of the requester
NotOwned ==
    {lecture_ids[i] : i \in 1..Len(lecture_ids)}
        \ {l \in Lectures : dbLectures[l] # None /\ dbLectures[l][1].user_id = CurrentUser}

\* C11: the search workflow is invoked only after every requested lecture id
\* was checked to belong to the requester: a request naming a lecture that is
\* not the requester's is rejected, no collection is searched and no
\* generation call is made, and every result returned carries a lecture id of
\* the requester.
C11_OwnershipBeforeSearch ==
    /\ (pc # "idle" /\ NotOwned # {}) =>
           /\ pc \in {"denied", "failed"}
           /\ mstate = None
           /\ searchLog = <<>>
           /\ vsCalls = 0
           /\ llmLog = <<>>
    /\ pc = "denied" => NotOwned # {}
    /\ \A i \in 1..Len(searchLog) :
           searchLog[i].lecture_id \in get_user_lecture_ids(CurrentUser)
    /\ pc = "returned" =>
           \A i \in 1..Len(response[1].results) :
               response[1].results[i].lecture_id \in get_user_lecture_ids(CurrentUser)

\* a request naming a lecture of the requester and a lecture of another user
\* was rejected
C11_Witness ==
    /\ pc = "denied"
    /\ lecture_ids = <<"L1", "L3">>
    /\ dbLectures["L3"][1].user_id = OtherUser
    /\ collections["L3"] # None

\* C12: a workflow entry point returns a structured result with an `error`
\* field and never raises, whatever fails inside a stage (transcript loading,
\* vector store, embedding backend, generation backend), and the failure is
\* reported in `error` together with the partial outputs of earlier stages.
\* Stated for run_multi_lecture_search: when its workflow has ended, the
\* state is there and, if a backend call of the search failed, `error` is set.
C12_FailuresReported ==
    pc = "multi_end" =>
        /\ mstate # None
        /\ FaultCount > 0 => ~Falsy(mstate[1].error)

(***************************************************************************)
(* services/langgraph_workflows.py: the summarization workflow             *)
(* load_transcript -> {generate_summary, extract_topics,                   *)
(* extract_timestamps} -> END, run by run_lecture_summarization.  The      *)
(* three stages after load_transcript run in any order; each assigns the   *)
(* fields its code assigns.                                                *)
(***************************************************************************)
\* str.split(sep) for a one-character separator
SplitOn(s, sep) ==
    LET cut    == {i \in 1..Len(s) : s[i] = sep}
        starts == SortedSeq({0} \cup cut)
        stop(k) == IF k < Len(starts) THEN starts[k + 1] - 1 ELSE Len(s)
    IN  [k \in 1..Len(starts) |-> SubSeq(s, starts[k] + 1, stop(k))]

\* SummarizationState(lecture_id=lecture_id)
InitialSummarizationState(lecture) ==
    [lecture_id |-> lecture,
     transcript |-> None,
     summary    |-> None,
     key_topics |-> <<>>,
     timestamps |-> <<>>,
     error      |-> None]

\* what a stage did: the state it returns, the text it put into its prompt
\* (None when it made no generation call) and the outcomes of its calls
StageResult(s, sent, llm) == [st |-> s, sent |-> sent, llm |-> llm]

\* load_transcript_for_summary
load_transcript_for_summary(s, loadRaises) ==
    IF loadRaises
    THEN StageResult([s EXCEPT !.error = Some(Lit("Error loading transcript"))], None, <<>>)
    ELSE IF Falsy(transcriptFile[s.lecture_id])
    THEN StageResult([s EXCEPT !.error = Some(Lit("Transcript not found for lecture"))],
                     None, <<>>)
    ELSE StageResult([s EXCEPT !.transcript = transcriptFile[s.lecture_id]], None, <<>>)

\* generate_summary_node: one prompt that carries state.transcript
generate_summary_node(s, ctorRaises, inv) ==
    IF Falsy(s.transcript)
    THEN StageResult([s EXCEPT !.error =
                          Some(Lit("No transcript available for summarization"))],
                     None, <<>>)
    ELSE IF ctorRaises
    THEN StageResult([s EXCEPT !.error = Some(Lit("Error generating summary"))], None, <<>>)
    ELSE IF inv = None
    THEN StageResult([s EXCEPT !.error = Some(Lit("Error generating summary"))],
                     s.transcript, <<inv>>)
    ELSE StageResult([s EXCEPT !.summary = Some(Strip(inv[1]))], s.transcript, <<inv>>)

\* extract_key_topics_node: [topic.strip() for topic in response.split(',')]
extract_key_topics_node(s, ctorRaises, inv) ==
    IF Falsy(s.transcript) THEN StageResult(s, None, <<>>)
    ELSE IF ctorRaises
    THEN StageResult([s EXCEPT !.error = Some(Lit("Error extracting topics"))], None, <<>>)
    ELSE IF inv = None
    THEN StageResult([s EXCEPT !.error = Some(Lit("Error extracting topics"))],
                     s.transcript, <<inv>>)
    ELSE LET parts == SplitOn(inv[1], ",")
         IN  StageResult([s EXCEPT !.key_topics =
                              [k \in 1..Len(parts) |-> Strip(parts[k])]],
                         s.transcript, <<inv>>)

\* the replies of the generation backend to the timestamp prompt: not JSON,
\* an empty JSON array, a JSON array with one {timestamp, description} entry
ReplyNotJson == <<"o", "k">>

ReplyEmptyArray == <<"[", "]">>

ReplyOneEntry == Lit("[{\"timestamp\": \"01:00\", \"description\": \"Intro\"}]")

TimestampReplies == {ReplyNotJson, ReplyEmptyArray, ReplyOneEntry}

\* json.loads on those replies; None: JSONDecodeError
JsonLoads(r) ==
    IF r = ReplyEmptyArray THEN Some(<<>>)
    ELSE IF r = ReplyOneEntry
    THEN Some(<<[timestamp |-> <<"0", "1", ":", "0", "0">>, description |-> Lit("Intro")]>>)
    ELSE None

SAMPLE_COUNT == 20

SAMPLE_TEXT_MAX == 200

\* the segment lines of the timestamp prompt:
\* segments[::max(1, len(segments)//20)], each as f"{start_str}: {text[:200]}..."
SampleSegmentTexts(segs) ==
    LET step == Max(1, Len(segs) \div SAMPLE_COUNT)
        n    == (Len(segs) + step - 1) \div step
    IN  Join(<<"\n">>,
             [k \in 1..n |->
                 segs[(k - 1) * step + 1].start_str \o <<":", " ">>
                     \o Take(segs[(k - 1) * step + 1].text, SAMPLE_TEXT_MAX)
                     \o <<".", ".", ".">>])

\* the prompt of extract_important_timestamps_node is an f-string whose text
\* [{"timestamp": "MM:SS", "description": "Description"}] is a replacement
\* field with the format specification ' "MM:SS", "description": ...':
\* evaluating it raises ValueError (Invalid format specifier)
TimestampPromptRaises == TRUE

\* extract_important_timestamps_node: the prompt is built before llm.invoke,
\* so its ValueError is caught by the outer except and the backend is not
\* asked
extract_important_timestamps_node(s, ctorRaises, inv) ==
    IF Falsy(s.transcript) THEN StageResult(s, None, <<>>)
    ELSE IF ctorRaises
    THEN StageResult([s EXCEPT !.error =
                          Some(Lit("Error extracting timestamps: get_llm"))], None, <<>>)
    ELSE IF TimestampPromptRaises
    THEN StageResult([s EXCEPT !.error =
                          Some(Lit("Error extracting timestamps: Invalid format specifier"))],
                     None, <<>>)
    ELSE LET sent == Some(SampleSegmentTexts(
                              parse_transcript_with_timestamps(s.transcript[1])))
         IN  IF inv = None
             THEN StageResult([s EXCEPT !.error =
                                   Some(Lit("Error extracting timestamps: invoke"))],
                              sent, <<inv>>)
             ELSE StageResult([s EXCEPT !.timestamps =
                                   IF JsonLoads(inv[1]) = None THEN <<>>
                                   ELSE JsonLoads(inv[1])[1]],
                              sent, <<inv>>)

\* the stages that have run
StagesDone == {stages[i].node : i \in 1..Len(stages)}

FanOut == {"generate_summary", "extract_topics", "extract_timestamps"}

\* what the generation backend answers to the summary and the topics prompt
SummaryOutcomes == {None, Some(<<" ", "o", "k", "\n">>), Some(<<"a", ",", " ", "b", " ">>)}

\* run_lecture_summarization: the initial state
sum_begin ==
    /\ pc = "idle"
    /\ sstate' = Some(InitialSummarizationState("L1"))
    /\ pc' = "load_transcript"
    /\ UNCHANGED <<storeVars, requestVars, response, qaVars, whisper, multiVars, upload,
                   stages, gcs>>

\* a stage of the workflow has run with result r
StageStep(node, ctorRaises, reply, r) ==
    /\ sstate' = Some(r.st)
    /\ llmLog' = llmLog \o r.llm
    /\ stages' = Append(stages, [node       |-> node,
                                 ctorRaises |-> ctorRaises,
                                 reply      |-> reply,
                                 sent       |-> r.sent,
                                 calls      |-> Len(r.llm)])
    /\ UNCHANGED <<storeVars, requestVars, response, state, wfResult, vsCalls, aqCalls,
                   whisper, multiVars, upload, gcs>>

LoadTranscriptForSummary ==
    /\ pc = "load_transcript"
    /\ \E loadRaises \in BOOLEAN :
          StageStep("load_transcript", loadRaises, None,
                    load_transcript_for_summary(sstate[1], loadRaises))
    /\ pc' = "fan_out"

GenerateSummary ==
    /\ pc = "fan_out"
    /\ "generate_summary" \notin StagesDone
    /\ \E ctorRaises \in BOOLEAN, inv \in SummaryOutcomes :
          StageStep("generate_summary", ctorRaises, inv,
                    generate_summary_node(sstate[1], ctorRaises, inv))
    /\ pc' = pc

ExtractKeyTopics ==
    /\ pc = "fan_out"
    /\ "extract_topics" \notin StagesDone
    /\ \E ctorRaises \in BOOLEAN, inv \in SummaryOutcomes :
          StageStep("extract_topics", ctorRaises, inv,
                    extract_key_topics_node(sstate[1], ctorRaises, inv))
    /\ pc' = pc

ExtractImportantTimestamps ==
    /\ pc = "fan_out"
    /\ "extract_timestamps" \notin StagesDone
    /\ \E ctorRaises \in BOOLEAN, inv \in {None} \cup {Some(r) : r \in TimestampReplies} :
          StageStep("extract_timestamps", ctorRaises, inv,
                    extract_important_timestamps_node(sstate[1], ctorRaises, inv))
    /\ pc' = pc

\* run_lecture_summarization: the returned dict
sum_return ==
    /\ pc = "fan_out"
    /\ FanOut \subseteq StagesDone
    /\ response' = Some([summary    |-> sstate[1].summary,
                         key_topics |-> sstate[1].key_topics,
                         timestamps |-> sstate[1].timestamps,
                         error      |-> sstate[1].error])
    /\ pc' = "returned"
    /\ UNCHANGED <<storeVars, requestVars, qaVars, whisper, multiVars, upload, sumVars>>

InitSummarize ==
    /\ pc = "idle"
    /\ \E t \in {None, Some(<<>>), Some(ShortTranscript), Some(LongTranscript)} :
          StoresOf(t, None)
    /\ owned = TRUE
    /\ question = <<>>
    /\ response = None
    /\ QaIdle
    /\ whisper = <<>>
    /\ MultiIdle
    /\ UploadIdle
    /\ SumIdle

NextSummarize ==
    \/ sum_begin
    \/ LoadTranscriptForSummary
    \/ GenerateSummary
    \/ ExtractKeyTopics
    \/ ExtractImportantTimestamps
    \/ sum_return

SpecSummarize == InitSummarize /\ [][NextSummarize]_vars

(***************************************************************************)
(* api/routes/lectures.py: generate_chunked_summary(transcript)            *)
(***************************************************************************)
CHUNK_TARGET == 3500

CHUNK_BACK == 500

MIN_BREAK == 1000

GROUP_SIZE == 3

\* str.rfind of a two-character pattern: the highest 0-based index, or -1
RFind(s, c1, c2) ==
    LET at == {i \in 0..(Len(s) - 2) : s[i + 1] = c1 /\ s[i + 2] = c2}
    IN  IF at = {} THEN 0 - 1 ELSE CHOOSE i \in at : \A j \in at : i >= j

\* one iteration of `while start < len(transcript)`: the chunk appended, the
\* next value of start, and whether the loop breaks
ChunkIter(transcript, start) ==
    IF start + CHUNK_TARGET >= Len(transcript)
    THEN [chunk |-> Slice(transcript, start, Len(transcript)),
          start |-> start,
          last  |-> TRUE]
    ELSE LET window      == Slice(transcript, start, start + CHUNK_TARGET)
             break_point == Max(RFind(window, ".", " "),
                                Max(RFind(window, "?", " "),
                                    RFind(window, "!", " ")))
             end         == IF break_point > start + MIN_BREAK
                            THEN start + break_point + 2
                            ELSE start + CHUNK_TARGET
         IN  [chunk |-> Slice(transcript, start, end),
              start |-> end - CHUNK_BACK,
              last  |-> FALSE]

\* length of the sentences of the long transcripts, and of a long partial
\* summary
SentenceLen == 2498

LongReplyLen == 2000

RECURSIVE Sentences(_, _, _)
\* n sentences of len letters, each ended by the mark and a space
Sentences(n, len, mark) ==
    IF n = 0 THEN <<>>
    ELSE Rep("a", len) \o <<mark, " ">> \o Sentences(n - 1, len, mark)

\* the transcripts passed to generate_chunked_summary
ChunkedTranscripts ==
    {<<>>,
     Rep("a", SUMMARY_DIRECT_MAX),
     Rep("a", SUMMARY_DIRECT_MAX + 1),
     Sentences(3, SentenceLen, "."),
     Sentences(9, SentenceLen \div 3, "?"),
     Rep("a", 2 * CHUNK_TARGET) \o Sentences(2, SentenceLen \div 2, "!"),
     Sentences(1, SentenceLen - MIN_BREAK, ".") \o Sentences(1, SentenceLen, ".")
         \o Rep("a", SUMMARY_DIRECT_MAX)}

\* the transcript argument: what the caller loaded for lecture L1
GcsTranscript == transcriptFile["L1"][1]

\* the partial summaries the backend returns; None: llm.invoke raises
PartialOutcomes == {None, Some(<<" ", "o", "k", "\n">>), Some(Rep("s", LongReplyLen))}

CombineOutcomes == {None, Some(<<" ", "o", "k", "\n">>)}

\* f"{chr(10)}{chr(10)}".join(chunk_summaries)
combined_chunks == Join(<<"\n", "\n">>, gcs[1].chunk_summaries)

\* a variant that makes one group per partial summary
GroupPerSummary == Len(gcs[1].chunk_summaries)

\* range(0, len(chunk_summaries), group_size)
GroupCount == (Len(gcs[1].chunk_summaries) + GROUP_SIZE - 1) \div GROUP_SIZE

\* generate_chunked_summary raises, or returns the stripped reply
GcsFinish(inv) ==
    /\ llmLog' = Append(llmLog, inv)
    /\ IF inv = None
       THEN pc' = "raised" /\ UNCHANGED gcs
       ELSE /\ gcs' = Some([gcs[1] EXCEPT !.result = Some(Strip(inv[1]))])
            /\ pc' = "returned"

GcsFrame ==
    UNCHANGED <<storeVars, requestVars, response, state, wfResult, vsCalls, aqCalls,
                whisper, multiVars, upload, sstate, stages>>

\* get_llm(), and the direct summary of a transcript of at most 4000 characters
gcs_begin ==
    /\ pc = "idle"
    /\ \E ctorRaises \in BOOLEAN, inv \in CombineOutcomes :
          LET locals == [start |-> 0, starts |-> <<>>, chunks |-> <<>>,
                         chunk_summaries |-> <<>>, mid_summaries |-> <<>>,
                         result |-> None]
          IN  IF ctorRaises
              THEN pc' = "raised" /\ UNCHANGED <<gcs, llmLog>>
              ELSE IF Len(GcsTranscript) <= SUMMARY_DIRECT_MAX
              THEN /\ llmLog' = Append(llmLog, inv)
                   /\ IF inv = None
                      THEN pc' = "raised" /\ UNCHANGED gcs
                      ELSE /\ gcs' = Some([locals EXCEPT !.result = Some(Strip(inv[1]))])
                           /\ pc' = "returned"
              ELSE /\ gcs' = Some(locals)
                   /\ pc' = "chunking"
                   /\ UNCHANGED llmLog
    /\ GcsFrame

\* one iteration of the chunking loop
ChunkStep ==
    /\ pc = "chunking"
    /\ LET it == ChunkIter(GcsTranscript, gcs[1].start)
       IN  /\ gcs' = Some([gcs[1] EXCEPT !.chunks = Append(@, it.chunk),
                                         !.starts = Append(@, gcs[1].start),
                                         !.start = it.start])
           /\ pc' = IF it.last \/ it.start >= Len(GcsTranscript)
                    THEN "summarizing" ELSE "chunking"
    /\ UNCHANGED llmLog
    /\ GcsFrame

\* one iteration of `for i, chunk in enumerate(chunks)`
SummarizeChunk ==
    /\ pc = "summarizing"
    /\ Len(gcs[1].chunk_summaries) < Len(gcs[1].chunks)
    /\ \E inv \in PartialOutcomes :
          /\ llmLog' = Append(llmLog, inv)
          /\ IF inv = None
             THEN pc' = "raised" /\ UNCHANGED gcs
             ELSE /\ gcs' = Some([gcs[1] EXCEPT !.chunk_summaries =
                                      Append(@, Strip(inv[1]))])
                  /\ pc' = pc
    /\ GcsFrame

\* the partial summaries fit into one prompt: the final call
FinalFromChunks ==
    /\ pc = "summarizing"
    /\ Len(gcs[1].chunk_summaries) = Len(gcs[1].chunks)
    /\ Len(combined_chunks) <= SUMMARY_DIRECT_MAX
    /\ \E inv \in CombineOutcomes : GcsFinish(inv)
    /\ GcsFrame

\* one iteration of `for i in range(0, len(chunk_summaries), group_size)`
SummarizeGroup ==
    /\ pc = "summarizing"
    /\ Len(gcs[1].chunk_summaries) = Len(gcs[1].chunks)
    /\ Len(combined_chunks) > SUMMARY_DIRECT_MAX
    /\ Len(gcs[1].mid_summaries) < GroupCount
    /\ \E inv \in CombineOutcomes :
          /\ llmLog' = Append(llmLog, inv)
          /\ IF inv = None
             THEN pc' = "raised" /\ UNCHANGED gcs
             ELSE /\ gcs' = Some([gcs[1] EXCEPT !.mid_summaries =
                                      Append(@, Strip(inv[1]))])
                  /\ pc' = pc
    /\ GcsFrame

\* the final call over the section summaries
FinalFromGroups ==
    /\ pc = "summarizing"
    /\ Len(gcs[1].chunk_summaries) = Len(gcs[1].chunks)
    /\ Len(combined_chunks) > SUMMARY_DIRECT_MAX
    /\ Len(gcs[1].mid_summaries) = GroupCount
    /\ \E inv \in CombineOutcomes : GcsFinish(inv)
    /\ GcsFrame

InitChunked ==
    /\ pc = "idle"
    /\ \E t \in ChunkedTranscripts : StoresOf(Some(t), None)
    /\ owned = TRUE
    /\ question = <<>>
    /\ response = None
    /\ QaIdle
    /\ whisper = <<>>
    /\ MultiIdle
    /\ UploadIdle
    /\ SumIdle

NextChunked ==
    \/ gcs_begin
    \/ ChunkStep
    \/ SummarizeChunk
    \/ FinalFromChunks
    \/ SummarizeGroup
    \/ FinalFromGroups

SpecChunked == InitChunked /\ [][NextChunked]_vars

\* the function runs on: every step that is enabled is eventually taken
SpecChunkedFair == SpecChunked /\ WF_vars(NextChunked)

\* the generation calls generate_chunked_summary makes when none raises, for
\* n chunks whose joined partial summaries have the given length
ExpectedCalls(transcriptLen, n, combinedLen) ==
    IF transcriptLen <= SUMMARY_DIRECT_MAX THEN 1
    ELSE IF combinedLen <= SUMMARY_DIRECT_MAX THEN n + 1
    ELSE n + ((n + 2) \div 3) + 1

GcsEnded == pc \in {"returned", "raised"}

\* start grows with every iteration of the chunking loop, and the calls made
\* never exceed, and on return equal, the number the claim gives
C16_Bounded ==
    gcs # None =>
        /\ \A i \in 1..Len(gcs[1].starts), j \in 1..Len(gcs[1].starts) :
               i < j => gcs[1].starts[i] < gcs[1].starts[j]
        /\ (pc = "chunking" /\ gcs[1].starts # <<>>)
               => gcs[1].start > gcs[1].starts[Len(gcs[1].starts)]
        /\ Len(gcs[1].chunks) <= Len(GcsTranscript)
        /\ Len(llmLog) <= Len(gcs[1].chunks) + ((Len(gcs[1].chunks) + 2) \div 3) + 1
        /\ pc = "returned"
               => Len(llmLog) = ExpectedCalls(Len(GcsTranscript), Len(gcs[1].chunks),
                                              Len(combined_chunks))

\* C16: generate_chunked_summary terminates for every transcript when each
\* backend call returns or raises: the chunking loop strictly increases
\* `start`, and the generation calls number 1 for a transcript of at most
\* 4000 characters, otherwise n + 1 when the joined partial summaries fit in
\* 4000 characters and n + ceil(n/3) + 1 when they do not (n chunks, one
\* grouping level).
C16_TerminatesBounded == []C16_Bounded /\ <>GcsEnded

\* a transcript was cut at a sentence end into three chunks whose partial
\* summaries did not fit into one prompt, and the summary was returned
C16_Witness ==
    /\ pc = "returned"
    /\ Len(gcs[1].chunks) = 3
    /\ Len(gcs[1].chunks[1]) < CHUNK_TARGET
    /\ Len(gcs[1].mid_summaries) = 1
    /\ Len(llmLog) = 5

\* the stage entry of consolidate_answer_node, when it reached the backend
ConsolidateEntries == SelectSeq(stages, LAMBDA e : e.node = "consolidate_answer")

FixedAnswer == Some(Lit("No relevant information found across the lectures."))

\* with no result the fixed message is the answer, the backend is not used
\* and no error is set
EmptyResultsCase ==
    (pc = "multi_end" /\ mstate[1].results = <<>>) =>
        /\ mstate[1].consolidated_answer = FixedAnswer
        /\ mstate[1].error = None
        /\ llmLog = <<>>
        /\ ConsolidateEntries = <<>>

\* the lines of the first min(10, n) results
ExpectedContext ==
    LET res == mstate[1].results
        n   == Min(10, Len(res))
    IN  Join(<<"\n", "\n">>,
             [k \in 1..n |->
                 <<"Lecture ", res[k].lecture_id, " (">> \o res[k].video_timestamp
                     \o <<"): ">> \o res[k].text])

\* the claim as stated: with results, exactly one generation call
C19_AsStated ==
    /\ EmptyResultsCase
    /\ (pc = "multi_end" /\ mstate[1].results # <<>>) =>
           /\ Len(llmLog) = 1
           /\ ConsolidateEntries[1].sent = Some(ExpectedContext)

\* C19: ConsolidateAnswer with an empty result list sets consolidated_answer
\* to the fixed message without a generation call and without setting error;
\* with a non-empty list, and a backend client that can be constructed, it
\* makes exactly one generation call, whose prompt is built from the first
\* min(10, len(results)) results only; it never makes more than one.
C19_ConsolidateCalls ==
    /\ EmptyResultsCase
    /\ (pc = "multi_end" /\ mstate[1].results # <<>>) =>
           /\ Len(ConsolidateEntries) = 1
           /\ Len(llmLog) <= 1
           /\ ~ConsolidateEntries[1].ctorRaises =>
                  /\ Len(llmLog) = 1
                  /\ ConsolidateEntries[1].sent = Some(ExpectedContext)

\* more than ten results were consolidated by one generation call
C19_Witness ==
    /\ pc = "multi_end"
    /\ Len(mstate[1].results) > CONSOLIDATE_TOP
    /\ Len(llmLog) = 1
    /\ mstate[1].consolidated_answer = Some(<<"o", "k">>)

(***************************************************************************)
(* db/qdrant_store.py: create_collection, save_index and delete_collection *)
(* called in any order                                                     *)
(***************************************************************************)
\* most calls made in one run
MaxIndexCalls == 3

\* the chunk lists passed to save_index
IndexChunkLists == {<<>>, <<<<"a", "b">>>>, <<<<"a", "b">>, <<"c", "d">>>>}

\* save_index(chunks, lecture_id, user_id): create_collection, whose error is
\* swallowed, then add_texts, which embeds the chunks and upserts one point
\* with a fresh id per chunk; an error of add_texts leaves save_index
save_index(colls, chunks, lecture, user, createRaises, embedRaises, upsertRaises) ==
    LET created == create_collection(colls, lecture, createRaises)
    IN  IF embedRaises \/ upsertRaises \/ created[lecture] = None
        THEN [colls |-> created, raised |-> TRUE]
        ELSE [colls  |-> [created EXCEPT ![lecture] =
                              Some(created[lecture][1] \o IndexPoints(chunks, lecture, user))],
              raised |-> FALSE]

\* QdrantVectorStore.delete_collection: an error of the client is swallowed
delete_collection(colls, lecture, clientRaises) ==
    IF clientRaises THEN colls ELSE [colls EXCEPT ![lecture] = None]

\* the outcome of the last call
CallOutcome(op, lecture, chunks, user, raised) ==
    Some([op      |-> op,
          lecture |-> lecture,
          chunks  |-> chunks,
          user    |-> user,
          before  |-> collections[lecture],
          raised  |-> raised])

IndexFrame ==
    UNCHANGED <<pdfFiles, transcriptFile, durationFile, mediaFile, dbLectures, pc, requestVars,
                state, wfResult, llmLog, aqCalls, whisper, sumVars, multiVars, upload>>

CreateCollection ==
    /\ vsCalls < MaxIndexCalls
    /\ \E l \in {"L1", "L2"}, clientRaises \in BOOLEAN :
          /\ collections' = create_collection(collections, l, clientRaises)
          /\ response' = CallOutcome("create_collection", l, <<>>, CurrentUser, FALSE)
    /\ vsCalls' = vsCalls + 1
    /\ IndexFrame

SaveIndex ==
    /\ vsCalls < MaxIndexCalls
    /\ \E l \in {"L1", "L2"}, chunks \in IndexChunkLists,
          createRaises \in BOOLEAN, embedRaises \in BOOLEAN, upsertRaises \in BOOLEAN :
          LET r == save_index(collections, chunks, l, CurrentUser,
                              createRaises, embedRaises, upsertRaises)
          IN  /\ collections' = r.colls
              /\ response' = CallOutcome("save_index", l, chunks, CurrentUser, r.raised)
    /\ vsCalls' = vsCalls + 1
    /\ IndexFrame

DeleteCollection ==
    /\ vsCalls < MaxIndexCalls
    /\ \E l \in {"L1", "L2"}, clientRaises \in BOOLEAN :
          /\ collections' = delete_collection(collections, l, clientRaises)
          /\ response' = CallOutcome("delete_collection", l, <<>>, CurrentUser, FALSE)
    /\ vsCalls' = vsCalls + 1
    /\ IndexFrame

InitIndex ==
    /\ pc = "idle"
    /\ StoresOf(None, None)
    /\ owned = TRUE
    /\ question = <<>>
    /\ response = None
    /\ QaIdle
    /\ whisper = <<>>
    /\ MultiIdle
    /\ UploadIdle
    /\ SumIdle

NextIndex ==
    \/ CreateCollection
    \/ SaveIndex
    \/ DeleteCollection

SpecIndex == InitIndex /\ [][NextIndex]_vars

\* C17: after any sequence of save_index calls the collection of a lecture
\* holds exactly one record per chunk of the most recent call, with
\* chunk_index 0..n-1 each once and the lecture id and the owner's id on every
\* record: indexing again replaces the earlier records.
C17_IndexReplaces ==
    (response # None /\ response[1].op = "save_index" /\ ~response[1].raised) =>
        collections[response[1].lecture] =
            Some(IndexPoints(response[1].chunks, response[1].lecture, response[1].user))

\* C18: create_collection with the name of an existing collection does not
\* raise and leaves the records of the collection as they were.
C18_CreateIdempotent ==
    (/\ response # None
     /\ response[1].op = "create_collection"
     /\ response[1].before # None)
        => /\ ~response[1].raised
           /\ collections[response[1].lecture] = response[1].before

\* create_collection was called for a collection that holds two records
C18_Witness ==
    /\ response # None
    /\ response[1].op = "create_collection"
    /\ response[1].before # None
    /\ Len(response[1].before[1]) = 2
    /\ Len(collections[response[1].lecture][1]) = 2

(***************************************************************************)
(* Claims about the summarization workflow                                 *)
(***************************************************************************)
\* the log entry of a stage that has run
StageEntry(node) == stages[CHOOSE i \in 1..Len(stages) : stages[i].node = node]

\* the final state when the three stages run in the order generate_summary,
\* extract_topics, extract_timestamps with the backend outcomes each one met
InDeclaredOrder ==
    LET s0 == load_transcript_for_summary(InitialSummarizationState("L1"),
                                          StageEntry("load_transcript").ctorRaises).st
        g  == StageEntry("generate_summary")
        k  == StageEntry("extract_topics")
        t  == StageEntry("extract_timestamps")
        s1 == generate_summary_node(s0, g.ctorRaises, g.reply).st
        s2 == extract_key_topics_node(s1, k.ctorRaises, k.reply).st
    IN  extract_important_timestamps_node(s2, t.ctorRaises, t.reply).st

\* C13: GenerateSummary, ExtractKeyTopics and ExtractImportantTimestamps write
\* pairwise disjoint fields, so the final state (summary, key_topics,
\* timestamps, error) is the same for every order in which they run, also
\* when two or more of them fail.
C13_OrderIndependent ==
    pc = "returned" => sstate[1] = InDeclaredOrder

\* C14: when LoadTranscript of the summarization workflow has failed (error
\* set, no transcript), each downstream stage returns the state unchanged:
\* it makes no generation call and does not overwrite the error.
C14_FailedLoadPassesThrough ==
    [][(pc = "fan_out" /\ Falsy(sstate[1].transcript) /\ sstate[1].error # None)
           => (sstate' = sstate /\ llmLog' = llmLog)]_vars

\* C15: for a transcript of more than 4000 characters GenerateSummary does
\* not send the whole transcript in one prompt but makes one call per chunk
\* and combines the partial summaries; one call is made only for a short
\* transcript.
C15_LongTranscriptChunked ==
    \A i \in 1..Len(stages) :
        (stages[i].node = "generate_summary" /\ stages[i].calls > 0) =>
            IF Len(sstate[1].transcript[1]) > SUMMARY_DIRECT_MAX
            THEN stages[i].calls > 1 /\ stages[i].sent # sstate[1].transcript
            ELSE stages[i].calls = 1

\* C20: ExtractImportantTimestamps never raises; when the reply of the
\* generation backend is not a parsable list of {timestamp, description}
\* entries `timestamps` is the empty list, and otherwise it is the list of
\* those entries.
C20_TimestampsFromReply ==
    \A i \in 1..Len(stages) :
        LET e == stages[i]
        IN  (/\ e.node = "extract_timestamps"
             /\ ~Falsy(sstate[1].transcript)
             /\ ~e.ctorRaises
             /\ e.reply # None)
                => sstate[1].timestamps =
                       IF JsonLoads(e.reply[1]) = None THEN <<>>
                       ELSE JsonLoads(e.reply[1])[1]

(***************************************************************************)
(* Claims about POST /{lecture_id}/ask and the QA workflow (SpecAsk)       *)
(***************************************************************************)
AskEnded == pc \in {"returned", "raised"}

\* C1: `ask` returns a well-formed {answer: string, sources: list} for every
\* combination of failures of the workflow and of ask_question; no exception
\* ever leaves the endpoint, also when the fallback raises after the workflow
\* has failed.
C1_AskAlwaysAnswers ==
    AskEnded =>
        /\ pc = "returned"
        /\ response # None
        /\ response[1].answer # None

\* C2: in the QA workflow, once a stage has set `error`, every later stage
\* returns the state unchanged and makes no vector-store call and no
\* generation-backend call.
C2_ErrorShortCircuits ==
    [][(/\ pc \in {"retrieve_chunks", "generate_answer", "extract_sources"}
        /\ state.error # None)
          => (/\ state' = state
              /\ vsCalls' = vsCalls
              /\ llmLog' = llmLog)]_vars

\* C3: whenever a transcript is loaded, the sources of ExtractSources (and of
\* the fallback ask_question) hold exactly one entry per retrieved chunk:
\* len(sources) = len(context_chunks), never fewer.
C3_OneSourcePerChunk ==
    /\ (pc = "workflow_end" /\ ~Falsy(state.transcript))
           => Len(state.sources) = Len(state.context_chunks)
    /\ (pc = "returned" /\ aqCalls > 0 /\ ~Falsy(transcriptFile["L1"]))
           => Len(response[1].sources) =
                  Len(TranscriptWindows(transcriptFile["L1"][1]))

\* the chunk list is the first 5 of the windows transcript[i:i+1000],
\* i = 0, 2000, 4000, ..., stated character by character
IsWindowsOf(chunks, t) ==
    /\ Len(chunks) = Min(WINDOW_CAP, (Len(t) + WINDOW_STRIDE - 1) \div WINDOW_STRIDE)
    /\ \A k \in 1..Len(chunks) :
          /\ Len(chunks[k]) = Min(WINDOW_SIZE, Len(t) - (k - 1) * WINDOW_STRIDE)
          /\ \A j \in 1..Len(chunks[k]) :
                 chunks[k][j] = t[(k - 1) * WINDOW_STRIDE + j]

NonBlank(r) == \E i \in 1..Len(r) : r[i] \notin Whitespace

\* the collection of the lecture is missing and LoadTranscript loaded a transcript
FallbackCase == collections["L1"] = None /\ ~Falsy(state.transcript)

\* the workflow's generation call returned non-blank text
GenerationSucceeded ==
    /\ llmLog # <<>>
    /\ llmLog[1] # None
    /\ NonBlank(llmLog[1][1])

\* C5 as stated: with the collection missing and a transcript loaded,
\* RetrieveChunks sets context_chunks to the first 5 windows of the
\* transcript and sets no error, and the workflow ends with a non-empty
\* answer when the generation backend returns non-blank text.
C5_AsStated ==
    /\ (pc \in {"generate_answer", "extract_sources", "workflow_end"} /\ FallbackCase)
           => (/\ IsWindowsOf(state.context_chunks, state.transcript[1])
               /\ (pc = "generate_answer" => state.error = None))
    /\ (pc = "workflow_end" /\ FallbackCase /\ GenerationSucceeded)
           => (state.answer # None /\ state.answer[1] # <<>>)

\* C5 amended: the same, for a non-empty question (an empty question makes
\* RetrieveChunks set error "No question provided" before it looks at the
\* collection).
C5_RetrievalFallback ==
    /\ (/\ pc \in {"generate_answer", "extract_sources", "workflow_end"}
        /\ FallbackCase
        /\ question # <<>>)
           => (/\ IsWindowsOf(state.context_chunks, state.transcript[1])
               /\ Len(state.context_chunks) <= 5
               /\ \A k \in 1..Len(state.context_chunks) :
                      Len(state.context_chunks[k]) <= 1000
               /\ (pc = "generate_answer" => state.error = None))
    /\ (pc = "workflow_end" /\ FallbackCase /\ question # <<>> /\ GenerationSucceeded)
           => (/\ state.answer # None
               /\ state.answer[1] # <<>>
               /\ state.error = None)

\* a long transcript was cut down to 5 windows and the workflow answered
C5_Witness ==
    /\ pc = "workflow_end"
    /\ FallbackCase
    /\ Len(state.transcript[1]) > WINDOW_CAP * WINDOW_STRIDE
    /\ Len(state.context_chunks) = 5
    /\ Len(state.context_chunks[5]) = 1000
    /\ state.answer = Some(<<"o", "k">>)
    /\ state.error = None

\* the workflow failed: it raised, or it reported an error
WorkflowFailed == wfResult = None \/ ~Falsy(wfResult[1].error)

\* C6: `ask` attempts the QA workflow first; ask_question is invoked only
\* after that attempt, and whenever the workflow raises or reports an error;
\* when the workflow reports no error the response is exactly the workflow's
\* answer and sources and ask_question is not invoked.
C6_WorkflowFirst ==
    /\ aqCalls > 0 => pc \in {"returned", "except", "raised"}
    /\ (AskEnded /\ WorkflowFailed) => aqCalls >= 1
    /\ (AskEnded /\ ~WorkflowFailed)
           => (/\ pc = "returned"
               /\ aqCalls = 0
               /\ response[1].answer = wfResult[1].answer
               /\ response[1].sources = wfResult[1].sources)

\* the workflow answered with citations and the fallback was not used
C6_Witness ==
    /\ pc = "returned"
    /\ ~WorkflowFailed
    /\ aqCalls = 0
    /\ response[1].answer = Some(<<"o", "k">>)
    /\ Len(response[1].sources) > 0

(***************************************************************************)
(* api/routes/lectures.py: POST /{lecture_id}/pdf, GET                     *)
(* /{lecture_id}/pdf/{filename} and DELETE /{lecture_id}                   *)
(***************************************************************************)
\* the users making requests
Users == {CurrentUser, OtherUser}

\* the lectures of these requests: L1 is uploaded by CurrentUser, L2 by
\* OtherUser
FileLectures == {"L1", "L2"}

OwnerOf(lecture) == IF lecture = "L1" THEN CurrentUser ELSE OtherUser

\* datetime.now().strftime('%Y%m%d_%H%M%S')
Stamps == {"20240101_000000"}

\* f"lecture_{lecture_id}_{stamp}.pdf" and f"summary_{lecture_id}_{stamp}.pdf";
\* a name is kept as its parts
PdfName(prefix, lecture, stamp) == <<prefix, lecture, "_", stamp, ".pdf">>

PdfNames ==
    {PdfName(p, l, s) : p \in {"lecture_", "summary_"}, l \in FileLectures, s \in Stamps}

\* the lecture a PDF was generated for
LectureOfPdf(name) == name[2]

\* file.startswith(lecture_id): a lecture id is a uuid4 string (hex digits
\* and dashes), so it is a prefix of a name only when the name begins with it
StartsWith(name, lecture) == name[1] = lecture

\* file.endswith('.pdf')
EndsWith(name, suffix) == name[Len(name)] = suffix

\* crud.get_lecture_by_id: the row with that id and that owner
get_lecture_by_id(db, lecture, user) ==
    IF db[lecture] # None /\ db[lecture][1].user_id = user THEN db[lecture] ELSE None

\* crud.verify_lecture_ownership
verify_lecture_ownership(db, lecture, user) == get_lecture_by_id(db, lecture, user) # None

\* what an endpoint call did: the request and the HTTP status
FileOutcome(op, user, lecture, filename, status) ==
    Some([op |-> op, user |-> user, lecture_id |-> lecture, filename |-> filename,
          status |-> status])

FilesFrame ==
    UNCHANGED <<pc, requestVars, state, wfResult, vsCalls, aqCalls, whisper, multiVars,
                upload, sumVars>>

\* the generation calls made by the requests considered
MaxPdfSummaries == 1

\* generate_transcript_pdf / generate_summary_pdf: pdf.output writes the file
\* or raises
WritePdf(user, l, prefix) ==
    \E stamp \in Stamps, pdfRaises \in BOOLEAN :
        IF pdfRaises
        THEN /\ response' = FileOutcome("generate_pdf", user, l, None, 500)
             /\ UNCHANGED pdfFiles
        ELSE /\ response' = FileOutcome("generate_pdf", user, l,
                                        Some(PdfName(prefix, l, stamp)), 200)
             /\ pdfFiles' = pdfFiles \cup {PdfName(prefix, l, stamp)}

\* generate_pdf
GeneratePdf ==
    /\ \E user \in Users, l \in FileLectures, type \in {"transcript", "summary", "other"} :
          LET lecture    == get_lecture_by_id(dbLectures, l, user)
              transcript == transcriptFile[l]
              stored     == lecture[1].summary # <<>>
              Fail(code) == /\ response' = FileOutcome("generate_pdf", user, l, None, code)
                            /\ UNCHANGED <<dbLectures, pdfFiles, llmLog>>
          IN  IF lecture = None THEN Fail(403)
              ELSE IF type = "other" THEN Fail(400)
              ELSE IF (type = "transcript" \/ ~stored) /\ Falsy(transcript) THEN Fail(404)
              ELSE IF type = "transcript" \/ stored
                   THEN /\ WritePdf(user, l, IF type = "transcript" THEN "lecture_"
                                             ELSE "summary_")
                        /\ UNCHANGED <<dbLectures, llmLog>>
              ELSE \* summary = generate_chunked_summary(transcript), stored in the row
                   /\ Len(llmLog) < MaxPdfSummaries
                   /\ \E ctorRaises \in BOOLEAN, inv \in InvokeOutcomes :
                         IF ctorRaises \/ inv = None
                         THEN /\ response' = FileOutcome("generate_pdf", user, l, None, 500)
                              /\ llmLog' = IF ctorRaises THEN llmLog ELSE Append(llmLog, inv)
                              /\ UNCHANGED <<dbLectures, pdfFiles>>
                         ELSE /\ dbLectures' = [dbLectures EXCEPT ![l] =
                                     Some([lecture[1] EXCEPT !.summary = Strip(inv[1])])]
                              /\ llmLog' = Append(llmLog, inv)
                              /\ WritePdf(user, l, "summary_")
    /\ UNCHANGED <<transcriptFile, durationFile, mediaFile, collections>>
    /\ FilesFrame

\* download_pdf
DownloadPdf ==
    /\ \E user \in Users, l \in FileLectures, filename \in PdfNames :
          response' = FileOutcome("download_pdf", user, l, Some(filename),
                         IF ~verify_lecture_ownership(dbLectures, l, user) THEN 403
                         ELSE IF filename \notin pdfFiles THEN 404
                         ELSE 200)
    /\ UNCHANGED <<storeVars, llmLog>>
    /\ FilesFrame

\* delete_lecture_endpoint; `fault` names the call that raised, if any: the
\* commit of crud.delete_lecture, a call on LECTURE_DIR or a call on PDF_DIR
DeleteLecture ==
    /\ \E user \in Users, l \in FileLectures, fault \in {"none", "db", "files", "pdfs"},
          clientRaises \in BOOLEAN :
          LET lecture == get_lecture_by_id(dbLectures, l, user)
              Done(code) == response' = FileOutcome("delete_lecture", user, l, None, code)
          IN  IF lecture = None
              THEN /\ Done(404)
                   /\ UNCHANGED storeVars
              ELSE IF fault = "db"
              THEN /\ Done(500)
                   /\ UNCHANGED storeVars
              ELSE /\ dbLectures' = [dbLectures EXCEPT ![l] = None]
                   /\ IF fault = "files"
                      THEN /\ Done(500)
                           /\ UNCHANGED <<transcriptFile, durationFile, mediaFile,
                                          collections, pdfFiles>>
                      ELSE /\ mediaFile' = [mediaFile EXCEPT ![l] = FALSE]
                           /\ transcriptFile' = [transcriptFile EXCEPT ![l] = None]
                           /\ durationFile' = [durationFile EXCEPT ![l] = None]
                           /\ collections' = delete_collection(collections, l, clientRaises)
                           /\ IF fault = "pdfs"
                              THEN /\ Done(500)
                                   /\ UNCHANGED pdfFiles
                              ELSE /\ Done(200)
                                   /\ pdfFiles' = {f \in pdfFiles :
                                          ~(StartsWith(f, l) /\ EndsWith(f, ".pdf"))}
    /\ UNCHANGED llmLog
    /\ FilesFrame

\* both lectures are uploaded, with or without a stored summary
InitFiles ==
    /\ pc = "idle"
    /\ \E s1 \in {<<>>, <<"o", "k">>} :
          dbLectures = [l \in Lectures |->
              IF l \in FileLectures
              THEN Some([LectureRow(l, OwnerOf(l)) EXCEPT
                             !.summary = IF l = "L1" THEN s1 ELSE <<"o", "k">>])
              ELSE None]
    /\ transcriptFile = [l \in Lectures |->
                            IF l \in FileLectures THEN Some(ShortTranscript) ELSE None]
    /\ durationFile = [l \in Lectures |-> IF l \in FileLectures THEN Some(366500) ELSE None]
    /\ mediaFile = [l \in Lectures |-> l \in FileLectures]
    /\ collections = [l \in Lectures |-> IF l \in FileLectures THEN Some(<<>>) ELSE None]
    /\ pdfFiles = {}
    /\ owned = TRUE
    /\ question = <<>>
    /\ response = None
    /\ whisper = <<>>
    /\ upload = None
    /\ QaIdle
    /\ MultiIdle
    /\ SumIdle

NextFiles ==
    \/ GeneratePdf
    \/ DownloadPdf
    \/ DeleteLecture

SpecFiles == InitFiles /\ [][NextFiles]_vars

\* what is left of lecture l: record, files, collection and PDFs
NothingRemains(l) ==
    /\ dbLectures[l] = None
    /\ ~mediaFile[l]
    /\ transcriptFile[l] = None
    /\ durationFile[l] = None
    /\ collections[l] = None
    /\ \A f \in pdfFiles : LectureOfPdf(f) # l

DeleteSucceeded ==
    /\ response # None
    /\ response[1].op = "delete_lecture"
    /\ response[1].status = 200

\* C21: after delete_lecture_endpoint returns success for a lecture owned by
\* the requester, nothing of that lecture id remains: DB record, media file,
\* transcript file, duration file, vector collection and generated PDFs.
C21_DeleteRemovesAll ==
    DeleteSucceeded => NothingRemains(response[1].lecture_id)

\* C30: download_pdf returns a file to a user only if that PDF was generated
\* for a lecture that user owns.
C30_DownloadOwnPdfOnly ==
    (/\ response # None
     /\ response[1].op = "download_pdf"
     /\ response[1].status = 200)
        => verify_lecture_ownership(dbLectures, LectureOfPdf(response[1].filename[1]),
                                    response[1].user)

(***************************************************************************)
(* Claims about POST /upload                                               *)
(***************************************************************************)
\* C29: when upload_lecture fails at a processing step after the media file
\* was written, no artefact of the lecture persists once the request has
\* ended: media file, transcript file, duration file, collection, DB record.
C29_FailedUploadLeavesNothing ==
    (pc = "failed" /\ upload[1].fault # "write") =>
        /\ ~mediaFile["L1"]
        /\ transcriptFile["L1"] = None
        /\ durationFile["L1"] = None
        /\ collections["L1"] = None
        /\ dbLectures["L1"] = None

(***************************************************************************)
(* services/timestamp_service.py on its own: the parser over transcripts   *)
(* of a few lines, and the two time conversions over time strings          *)
(***************************************************************************)
\* the lines a transcript is made of: well-formed ones, one whose text is
\* a single space, one whose text ends with a space, and lines that are not
\* of the form (free text, the line format of transcribe, an empty line, a
\* well-formed line behind a leading space)
ParseLines ==
    {HmsLine(Hms(0, 0, 1, 0), Hms(0, 0, 2, 50), <<"a", "b">>),
     HmsLine(Hms(0, 1, 5, 0), Hms(1, 1, 5, 0), <<"c", "d">>),
     HmsLine(Hms(0, 2, 0, 0), Hms(0, 2, 1, 0), <<" ">>),
     HmsLine(Hms(0, 3, 0, 0), Hms(0, 3, 1, 0), <<"e", " ">>),
     <<"g", "a", "r", "b", "a", "g", "e">>,
     TranscriptLine([start |-> 100, end |-> 250, text |-> <<"a", "b">>]),
     <<>>,
     <<" ">> \o HmsLine(Hms(0, 4, 0, 0), Hms(0, 4, 1, 0), <<"f">>)}

\* lines per transcript
MaxLines == 3

ParseTranscripts ==
    {Join(<<"\n">>, ls) : ls \in UNION {[1..n -> ParseLines] : n \in 0..MaxLines}}

\* a caller parses the stored transcript
ParseTranscript ==
    /\ pc = "idle"
    /\ response' = Some(parse_transcript_with_timestamps(transcriptFile["L1"][1]))
    /\ pc' = "parsed"
    /\ UNCHANGED <<storeVars, requestVars, qaVars, whisper, sumVars, multiVars, upload>>

InitParse ==
    /\ pc = "idle"
    /\ \E t \in ParseTranscripts : StoresOf(Some(t), None)
    /\ owned = TRUE
    /\ question = <<>>
    /\ response = None
    /\ whisper = <<>>
    /\ QaIdle
    /\ MultiIdle
    /\ UploadIdle
    /\ SumIdle

NextParse == ParseTranscript

SpecParse == InitParse /\ [][NextParse]_vars

\* the segments are, in order, those of the lines of `lines` that have the
\* form, each with the text and the times of its own line
SegmentsOfLines(segs, lines) ==
    LET ofForm == {k \in 1..Len(lines) : LineMatches(lines[k])}
        Nth(n) == CHOOSE k \in ofForm : Cardinality({j \in ofForm : j < k}) = n - 1
    IN  /\ Len(segs) = Cardinality(ofForm)
        /\ \A n \in 1..Len(segs) :
               LET line == lines[Nth(n)]
               IN  /\ segs[n].start_str = SubSeq(line, 2, 12)
                   /\ segs[n].end_str = SubSeq(line, 16, 26)
                   /\ segs[n].text = SubSeq(line, 29, Len(line))
                   /\ segs[n].start_time = time_to_seconds(segs[n].start_str)
                   /\ segs[n].end_time = time_to_seconds(segs[n].end_str)

\* the claim as stated, over the lines of the input
C22_AsStated ==
    pc = "parsed" =>
        SegmentsOfLines(response[1], SplitLines(transcriptFile["L1"][1]))

\* C22: parse_transcript_with_timestamps yields exactly one segment per line
\* of the form `[HH:MM:SS.cc - HH:MM:SS.cc] text`, in line order, where the
\* lines are those of the transcript with its leading and trailing
\* whitespace removed; a line not of that form yields no segment and changes
\* neither the text nor the times of a neighbouring segment.
C22_OneSegmentPerLine ==
    pc = "parsed" =>
        SegmentsOfLines(response[1], SplitLines(Strip(transcriptFile["L1"][1])))

\* two well-formed lines with one garbage line between them gave exactly two
\* segments, in order
C22_Witness ==
    /\ pc = "parsed"
    /\ transcriptFile["L1"][1] = ShortTranscript
    /\ Len(response[1]) = 2
    /\ response[1][1].text = <<"a", "b">>
    /\ response[1][2].text = <<"c", "d">>

\* well-formed time strings: two digits per field
TimeStrings ==
    {Hms(h, m, sec, c) : h \in {0, 1, 99}, m \in {0, 59}, sec \in {0, 1, 7, 59},
                         c \in 0..99}

\* seconds_to_time(time_to_seconds(s)) for the time string s
ConvertTime ==
    /\ pc = "idle"
    /\ response' = Some(seconds_to_time(time_to_seconds(question)))
    /\ pc' = "converted"
    /\ UNCHANGED <<storeVars, requestVars, qaVars, whisper, sumVars, multiVars, upload>>

InitTime ==
    /\ pc = "idle"
    /\ StoresOf(None, None)
    /\ owned = TRUE
    /\ question \in TimeStrings
    /\ response = None
    /\ whisper = <<>>
    /\ QaIdle
    /\ MultiIdle
    /\ UploadIdle
    /\ SumIdle

NextTime == ConvertTime

SpecTime == InitTime /\ [][NextTime]_vars

\* C23: for every well-formed HH:MM:SS.cc string s,
\* seconds_to_time(time_to_seconds(s)) = s.
C23_TimeRoundTrip ==
    pc = "converted" => response[1] = question

(***************************************************************************)
(* extract_sources_node over chosen chunks and segments                    *)
(***************************************************************************)
\* segments "cd", "e " (the text ends with a blank), "ab" and "abcd"
MatchTranscript ==
    Join(<<"\n">>,
         <<HmsLine(Hms(0, 0, 1, 0), Hms(0, 0, 2, 0), <<"c", "d">>),
           HmsLine(Hms(0, 0, 2, 0), Hms(0, 0, 3, 0), <<"e", " ">>),
           HmsLine(Hms(0, 0, 3, 0), Hms(0, 0, 4, 0), <<"a", "b">>),
           HmsLine(Hms(0, 0, 4, 0), Hms(0, 0, 5, 0), <<"a", "b", "c", "d">>)>>)

\* retrieved chunks: inside a segment, around a segment, with whitespace at
\* the ends, blank, empty, and matching nothing
MatchChunks ==
    {<<"a", "b">>, <<"x", "c", "d", "y">>, <<" ", "a">>, <<" ">>, <<"x", "e", "y">>,
     <<"z", "z">>, <<" ", "c", "d", "\n">>, <<>>}

\* chunks per run
MaxChunks == 2

InitMatch ==
    /\ pc = "extract_sources"
    /\ \E t \in {ShortTranscript, MatchTranscript},
          chunks \in UNION {[1..n -> MatchChunks] : n \in 0..MaxChunks} :
          /\ StoresOf(Some(t), Some(<<>>))
          /\ state = [InitialState("L1", <<"q">>) EXCEPT
                          !.transcript = Some(t),
                          !.context_chunks = chunks,
                          !.answer = Some(<<"o", "k">>)]
    /\ owned = TRUE
    /\ question = <<"q">>
    /\ response = None
    /\ wfResult = None
    /\ vsCalls = 2
    /\ llmLog = <<Some(<<"o", "k">>)>>
    /\ aqCalls = 0
    /\ whisper = <<>>
    /\ MultiIdle
    /\ UploadIdle
    /\ SumIdle

NextMatch == ExtractSources

SpecMatch == InitMatch /\ [][NextMatch]_vars

\* chunk text contained in segment text, or segment text in chunk text
ContainedEitherWay(chunk, seg) ==
    Contains(seg.text, chunk) \/ Contains(chunk, seg.text)

\* the same once the contained text has lost its leading and trailing
\* whitespace
ContainedStripped(chunk, seg) ==
    Contains(seg.text, Strip(chunk)) \/ Contains(chunk, Strip(seg.text))

\* the sources are, chunk by chunk, the earliest segment that satisfies Cond
\* for the chunk; a chunk for which no segment does has no source
CitesEarliest(Cond(_, _)) ==
    LET segs   == parse_transcript_with_timestamps(state.transcript[1])
        chunks == state.context_chunks
        cited  == {c \in 1..Len(chunks) : \E k \in 1..Len(segs) : Cond(chunks[c], segs[k])}
        Nth(n) == CHOOSE c \in cited : Cardinality({j \in cited : j < c}) = n - 1
    IN  /\ Len(state.sources) = Cardinality(cited)
        /\ \A n \in 1..Len(state.sources) :
               \E k \in 1..Len(segs) :
                   /\ Cond(chunks[Nth(n)], segs[k])
                   /\ \A j \in 1..(k - 1) : ~Cond(chunks[Nth(n)], segs[j])
                   /\ state.sources[n].text = segs[k].text
                   /\ state.sources[n].start_str = segs[k].start_str
                   /\ state.sources[n].end_str = segs[k].end_str
                   /\ state.sources[n].start_time = segs[k].start_time

\* the claim as stated, with plain containment
C24_AsStated ==
    pc = "workflow_end" => CitesEarliest(ContainedEitherWay)

\* C24: segment matching is first-match in segment order: the citation of a
\* retrieved chunk is the earliest parsed segment such that the chunk text
\* without its surrounding whitespace is contained in the segment text, or
\* the segment text without its surrounding whitespace is contained in the
\* chunk text; a later segment is never chosen when an earlier one satisfies
\* this, and no segment is chosen that satisfies neither.
C24_FirstMatch ==
    pc = "workflow_end" => CitesEarliest(ContainedStripped)

\* a chunk that several segments match was cited with the first of them
C24_Witness ==
    /\ pc = "workflow_end"
    /\ state.transcript[1] = MatchTranscript
    /\ state.context_chunks = <<<<"a", "b">>>>
    /\ Len(state.sources) = 1
    /\ state.sources[1].start_str = Hms(0, 0, 3, 0)

(***************************************************************************)
(* Claims about the fallback ask_question                                  *)
(***************************************************************************)
\* the fallback answered for a lecture with a transcript and a collection
\* that holds records
FallbackAnswered ==
    /\ pc = "returned"
    /\ aqCalls > 0
    /\ ~Falsy(transcriptFile["L1"])
    /\ ~Falsy(collections["L1"])

\* C25: when the fallback ask_question runs for a lecture whose collection
\* exists and whose backends work, the chunks it cites are the results of a
\* similarity search over that collection, not slices of the transcript.
C25_FallbackCitesSearch ==
    FallbackAnswered =>
        LET docs == similarity_search("L1", 5)
        IN  response[1].sources =
                ToTimestampSources(
                    MatchedSources([k \in 1..Len(docs) |-> docs[k].page_content],
                        parse_transcript_with_timestamps(transcriptFile["L1"][1])))

(***************************************************************************)
(* Claims about the chunker of generate_chunked_summary                    *)
(***************************************************************************)
\* the 0-based index in the window at `start` of its last `. `, `? ` or `! `
LastBoundary(start) ==
    LET window == Slice(GcsTranscript, start, start + CHUNK_TARGET)
    IN  Max(RFind(window, ".", " "), Max(RFind(window, "?", " "), RFind(window, "!", " ")))

\* the boundary lies in the last third of the window
InTailThird(break_point) == 3 * break_point >= 2 * CHUNK_TARGET

\* C26: at every window position, a non-final chunk ends just after the last
\* `. `, `? ` or `! ` of its 3500-character window when such a boundary lies
\* in the tail third of the window, and is cut at exactly 3500 characters
\* otherwise; consecutive chunks overlap by exactly 500 characters.
C26_BoundaryChunks ==
    gcs # None =>
        \A i \in 1..Len(gcs[1].chunks) :
            LET start == gcs[1].starts[i]
            IN  start + CHUNK_TARGET < Len(GcsTranscript) =>
                    /\ Len(gcs[1].chunks[i]) =
                           IF InTailThird(LastBoundary(start))
                           THEN LastBoundary(start) + 2
                           ELSE CHUNK_TARGET
                    /\ i < Len(gcs[1].chunks) =>
                           gcs[1].starts[i + 1] =
                               start + Len(gcs[1].chunks[i]) - CHUNK_BACK

(***************************************************************************)
(* The three workflows side by side: a request starts one of them          *)
(***************************************************************************)
InitWorkflows ==
    \/ InitMulti
    \/ /\ pc = "idle"
       /\ \E t \in {None, Some(<<>>), Some(ShortTranscript)},
             c \in {None, Some(RankedHits)} : StoresOf(t, c)
       /\ owned = TRUE
       /\ question \in Questions
       /\ response = None
       /\ whisper = <<>>
       /\ QaIdle
       /\ MultiIdle
       /\ UploadIdle
       /\ SumIdle

\* the workflow that is running is the one whose state was built
NextWorkflows ==
    \/ (pc = "idle" /\ (ask_begin \/ multi_begin \/ sum_begin))
    \/ (pc # "idle" /\ mstate = None /\ sstate = None /\ NextAsk)
    \/ (mstate # None /\ NextMulti)
    \/ (sstate # None /\ NextSummarize)

SpecWorkflows == InitWorkflows /\ [][NextWorkflows]_vars

\* the error of an Optional workflow state
ErrorOf(st) == IF st = None THEN None ELSE st[1].error

\* a step keeps a non-null error non-null, in the state of each workflow and
\* in the snapshot handed to the caller
ErrorKept ==
    /\ state.error # None => state'.error # None
    /\ ErrorOf(mstate) # None => ErrorOf(mstate') # None
    /\ ErrorOf(sstate) # None => ErrorOf(sstate') # None
    /\ (state.error # None /\ wfResult = None /\ wfResult' # None)
           => wfResult'[1].error # None
    /\ (ErrorOf(sstate) # None /\ response = None /\ response' # None)
           => response'[1].error # None

\* C27: in each of the three workflows, once the state's error field is
\* non-null it stays non-null in every later state up to and including the
\* snapshot returned to the caller; a later stage may replace the message but
\* none resets it to null.
C27_ErrorSticks == [][ErrorKept]_vars

\* the error set by the first stage of the summarization workflow was
\* replaced by a later stage and reached the caller
C27_Witness ==
    /\ pc = "returned"
    /\ sstate # None
    /\ Len(stages) = 4
    /\ stages[1].ctorRaises
    /\ response[1].error # None
    /\ response[1].error # Some(Lit("Error loading transcript"))

\* C28: at the end of every QA workflow run, error = null implies that the
\* transcript was loaded and that answer is a non-null string; so whenever
\* the ask endpoint returns the workflow's answer and not the fallback's,
\* that answer is a string.
C28_NoErrorMeansAnswer ==
    /\ (pc = "workflow_end" /\ state.error = None)
           => (~Falsy(state.transcript) /\ state.answer # None)
    /\ (pc = "returned" /\ aqCalls = 0)
           => (response[1].answer # None /\ wfResult[1].error = None)

\* the endpoint returned the answer of a workflow run that ended without error
C28_Witness ==
    /\ pc = "returned"
    /\ aqCalls = 0
    /\ wfResult # None
    /\ wfResult[1].error = None
    /\ response[1].answer = Some(<<"o", "k">>)

====
